---- MODULE Spec2Model ----
(***************************************************************************)
(* CountCraft: the statistics engine (src/src/counter.ts), the text        *)
(* analysis, content extraction and validation helpers (src/src/utils.ts), *)
(* the commands and listeners (src/src/main.ts) and the settings tab       *)
(* (src/src/settings.ts).                                                  *)
(*                                                                         *)
(* A string is a sequence of characters, a character a one-character       *)
(* TLA+ string.  The specifications of the module:                         *)
(*   SpecText       the pure functions of TextAnalyzer and the body        *)
(*                  extraction of CacheHelper.getFileBody, applied to      *)
(*                  every input of a bounded set;                          *)
(*   Spec           the engine, one invocation at a time:                  *)
(*                  calculateFileStats, calculateFileStatsFromCache,       *)
(*                  calculateAllFiles, getPreviewStats over a small vault; *)
(*   SpecValidate   validateCounterConfig applied to every candidate;      *)
(*   SpecSettings   settings.calculations under the settings tab and the   *)
(*                  import;                                                *)
(*   SpecProgress   the loop of calculateAllFiles over larger vaults;      *)
(*   SpecConcurrent the invocations of commands, batch and timers          *)
(*                  overlapping at their awaits;                           *)
(*   SpecEdit       the batch while the settings tab changes the list;     *)
(*   SpecIndex      the calculation while the host's index lags behind     *)
(*                  the file;                                              *)
(*   SpecNotifier   the batch with a notifier that may raise;              *)
(*   SpecFeedback   auto-recalculation fed by its own property writes.     *)
(***************************************************************************)
EXTENDS Integers, Sequences, FiniteSets, TLC

VARIABLES
    text,           \* SpecText: the input string
    fn,             \* SpecText: the function that was applied ("input" before)
    result,         \* SpecText: what the function returned
    calculations,   \* settings.calculations: the list of counter configurations
    readable,       \* per file: the file exists and cachedRead returns its content
    frontmatter,    \* per file: the properties of its front-matter block, or none
    bodyText,       \* per file: the text after the front-matter block
    metadataCache,  \* per file: what metadataCache.getFileCache returns
    renderer,       \* what MarkdownRenderer.render makes of a body
    pass,           \* the invocation of calculateFileStats, calculateFileStatsFromCache
                    \* or getPreviewStats in flight
    batch,          \* the invocation of calculateAllFiles in flight
    notices,        \* the notices shown since the last command started
    timers,         \* SpecConcurrent, per file: the timers of 'modify' not yet fired
    passes          \* SpecConcurrent: the invocations in flight, one per slot

textVars == <<text, fn, result>>
engineVars == <<calculations, readable, frontmatter, bodyText, metadataCache,
                renderer, pass, batch, notices>>
schedVars == <<timers, passes>>
vars == <<text, fn, result, calculations, readable, frontmatter, bodyText,
          metadataCache, renderer, pass, batch, notices, timers, passes>>

----------------------------------------------------------------------------
(* Bounds of the model *)

\* longest string of the exhaustive input set
MaxLen == 4
\* most lines of a structured heading document
MaxDocLines == 2
\* most leading '#' of a structured heading line
MaxHashes == 7
\* largest line number of a front-matter span handed to getFileBody
MaxSpanLine == 3
\* number of markdown files of the vault
NumFiles == 2
\* most configurations of settings.calculations
MaxConfigs == 2
\* validateCounterConfig: length of a parameter string, of the list of existing
\* configurations
MaxParamLen == 2
MaxExisting == 2
\* most files of a vault whose batch run is followed for its progress reports
MaxTotal == 12
\* most invocations in flight at once, most pending timers of a file
MaxPasses == 2
MaxTimers == 2

----------------------------------------------------------------------------
(* Characters and the classes the regular expressions of utils.ts use *)

LF == "\n"
CR == "\r"
HASH == "#"

\* the {1,6} of the heading pattern
MaxHeadingLevel == 6

\* \w of a JavaScript regular expression: [A-Za-z0-9_], nothing else
Digits == <<"0", "1", "2", "3", "4", "5", "6", "7", "8", "9">>
WordClass ==
    {"a", "b", "c", "d", "p", "q", "r", "t", "_"} \cup {Digits[i] : i \in 1..Len(Digits)}
\* \s of a JavaScript regular expression, among the characters of the model
WhiteSpace == {" ", "\t", LF, CR}
\* what '.' does not match: the line terminators
LineTerminator == {LF, CR}

IsWordChar(c) == c \in WordClass
IsSpace(c) == c \in WhiteSpace
IsDot(c) == c \notin LineTerminator

Max(S) == CHOOSE x \in S : \A y \in S : y <= x
Min2(a, b) == IF a < b THEN a ELSE b

\* Array.prototype.slice(from, to) with 0 <= from, 0 <= to (0-based, to exclusive)
Slice(arr, from, to) == SubSeq(arr, from + 1, Min2(to, Len(arr)))

\* String.prototype.trim
RECURSIVE TrimStart(_)
TrimStart(s) ==
    IF s # <<>> /\ IsSpace(Head(s)) THEN TrimStart(Tail(s)) ELSE s
RECURSIVE TrimEnd(_)
TrimEnd(s) ==
    IF s # <<>> /\ IsSpace(s[Len(s)]) THEN TrimEnd(SubSeq(s, 1, Len(s) - 1)) ELSE s
Trim(s) == TrimEnd(TrimStart(s))

----------------------------------------------------------------------------
(* split(/\r?\n/) and join('\n') *)

\* index of the first LF of s, 0 when there is none
FirstLF(s) ==
    IF \E k \in 1..Len(s) : s[k] = LF
    THEN CHOOSE k \in 1..Len(s) : s[k] = LF /\ \A j \in 1..(k - 1) : s[j] # LF
    ELSE 0

\* text.split(/\r?\n/): the separator is an LF with the CR before it, if any
RECURSIVE SplitLines(_)
SplitLines(s) ==
    LET k == FirstLF(s)
        stop == IF k > 1 /\ s[k - 1] = CR THEN k - 2 ELSE k - 1
    IN  IF k = 0 THEN <<s>>
        ELSE <<SubSeq(s, 1, stop)>> \o SplitLines(SubSeq(s, k + 1, Len(s)))

\* lines.join('\n')
RECURSIVE JoinLines(_)
JoinLines(lines) ==
    IF lines = <<>> THEN <<>>
    ELSE IF Len(lines) = 1 THEN lines[1]
    ELSE lines[1] \o <<LF>> \o JoinLines(Tail(lines))

----------------------------------------------------------------------------
(* CacheHelper.getFileBody: the content without the front-matter lines *)

\* getFileCache(file) returned null
NullCache == [null |-> TRUE]
\* frontmatterPosition is undefined
NoSpan == [none |-> TRUE]
Span(startLine, endLine) == [start |-> startLine, end |-> endLine]

\* cache?.frontmatterPosition
FrontmatterPositionOf(cache) ==
    IF cache = NullCache THEN NoSpan ELSE cache.frontmatterPosition

\* the same, without the early return for a missing span
getFileBodyAlwaysSplit(content, cache) ==
    LET fmPos == FrontmatterPositionOf(cache)
        lines == SplitLines(content)
    IN  IF fmPos = NoSpan THEN JoinLines(lines)
        ELSE JoinLines(Slice(lines, 0, fmPos.start)
                       \o Slice(lines, fmPos.end + 1, Len(lines)))

\* the same, with the suffix taken from end.line instead of end.line + 1
getFileBodyKeepsEndLine(content, cache) ==
    LET fmPos == FrontmatterPositionOf(cache)
        lines == SplitLines(content)
    IN  IF fmPos = NoSpan THEN content
        ELSE JoinLines(Slice(lines, 0, fmPos.start)
                       \o Slice(lines, fmPos.end, Len(lines)))

\* content is what cachedRead returned, cache what getFileCache returned
getFileBody(content, cache) ==
    LET fmPos == FrontmatterPositionOf(cache)
        lines == SplitLines(content)
        bodyLines == Slice(lines, 0, fmPos.start)
                     \o Slice(lines, fmPos.end + 1, Len(lines))
    IN  IF fmPos = NoSpan THEN content ELSE JoinLines(bodyLines)

----------------------------------------------------------------------------
(* TextAnalyzer *)

\* \b at index i of s (between s[i-1] and s[i]), for i in 1..Len(s)+1
WordBoundaryAt(s, i) ==
    LET before == i > 1 /\ IsWordChar(s[i - 1])
        after == i <= Len(s) /\ IsWordChar(s[i])
    IN  before # after

\* the ends j at which /\b\w+\b/ can match s[i..j]; \w+ is greedy: the largest
WordMatchEnds(s, i) ==
    IF WordBoundaryAt(s, i)
    THEN {j \in i..Len(s) :
            /\ \A k \in i..j : IsWordChar(s[k])
            /\ WordBoundaryAt(s, j + 1)}
    ELSE {}

\* text.match(/\b\w+\b/g): the matches from index i on, leftmost first, one
\* after the other; each match is the pair of its first and last index
RECURSIVE WordMatchesFrom(_, _)
WordMatchesFrom(s, i) ==
    IF i > Len(s) THEN <<>>
    ELSE IF WordMatchEnds(s, i) = {} THEN WordMatchesFrom(s, i + 1)
    ELSE LET j == Max(WordMatchEnds(s, i))
         IN  <<(<<i, j>>)>> \o WordMatchesFrom(s, j + 1)

\* tokens between whitespace: text.split(/\s+/) without the empty pieces
countWordsByWhitespace(s) ==
    Cardinality({i \in 1..Len(s) :
        ~IsSpace(s[i]) /\ (i = 1 \/ IsSpace(s[i - 1]))})

countWords(s) ==
    LET words == WordMatchesFrom(s, 1)
    IN  IF words # <<>> THEN Len(words) ELSE 0

countCharactersWithSpaces(s) == Len(s)

\* removes the blanks only
countCharactersWithoutBlanks(s) ==
    LET NotBlank(c) == c # " " IN Len(SelectSeq(s, NotBlank))

\* text.replace(/\s/g, '').length
countCharactersWithoutSpaces(s) ==
    LET NotSpace(c) == ~IsSpace(c) IN Len(SelectSeq(s, NotSpace))

\* without the early return for the empty string
countLinesNoEarlyOut(s) == Len(SplitLines(s))

countLines(s) == IF s = <<>> THEN 0 ELSE Len(SplitLines(s))

\* number of leading '#' of a line
RECURSIVE LeadingHashes(_)
LeadingHashes(line) ==
    IF line # <<>> /\ Head(line) = HASH THEN 1 + LeadingHashes(Tail(line)) ELSE 0

NoMatch == [matched |-> FALSE]

\* the lengths w of the whitespace run that let \s+ and then (.+)$ match after
\* h leading '#'
HeadingSpaceRuns(line, h) ==
    {w \in 1..(Len(line) - h - 1) :
        /\ \A k \in (h + 1)..(h + w) : IsSpace(line[k])
        /\ \A k \in (h + w + 1)..Len(line) : IsDot(line[k])}

\* REGEX_PATTERNS.HEADING of constants.ts, /^#+\s+(.+)$/: any number of '#'
HeadingMatchAnyLevel(line) ==
    LET h == LeadingHashes(line)
        runs == HeadingSpaceRuns(line, h)
    IN  IF h >= 1 /\ runs # {}
        THEN [matched |-> TRUE, hashes |-> h,
              rest |-> SubSeq(line, h + Max(runs) + 1, Len(line))]
        ELSE NoMatch

\* line.match(/^(#{1,6})\s+(.+)$/): group 1 is the run of '#' (after 1 to 6 of
\* them the next character must be whitespace, so it is the whole run), \s+ is
\* greedy and gives back characters until (.+)$ matches the rest of the line
HeadingMatch(line) ==
    LET h == LeadingHashes(line)
        runs == HeadingSpaceRuns(line, h)
    IN  IF h >= 1 /\ h <= MaxHeadingLevel /\ runs # {}
        THEN [matched |-> TRUE, hashes |-> h,
              rest |-> SubSeq(line, h + Max(runs) + 1, Len(line))]
        ELSE NoMatch

RECURSIVE HeadingsOfLines(_, _)
HeadingsOfLines(lines, index) ==
    IF index >= Len(lines) THEN <<>>
    ELSE LET match == HeadingMatch(lines[index + 1])
         IN  (IF match.matched
              THEN <<[level |-> match.hashes,
                      heading |-> Trim(match.rest),
                      line |-> index + 1]>>
              ELSE <<>>)
             \o HeadingsOfLines(lines, index + 1)

extractHeadings(s) == HeadingsOfLines(SplitLines(s), 0)

\* counts[level] = (counts[level] || 0) + 1
CountLevel(counts, level) ==
    [l \in DOMAIN counts \cup {level} |->
        (IF l \in DOMAIN counts THEN counts[l] ELSE 0) + (IF l = level THEN 1 ELSE 0)]

NoCounts == [l \in {} |-> 0]

\* the levels of a list of headings, counted one after the other
RECURSIVE CountLevels(_)
CountLevels(levels) ==
    IF levels = <<>> THEN NoCounts
    ELSE CountLevel(CountLevels(SubSeq(levels, 1, Len(levels) - 1)), levels[Len(levels)])

LevelsOf(headings) == [i \in 1..Len(headings) |-> headings[i].level]

countHeadingsByLevel(s) == CountLevels(LevelsOf(extractHeadings(s)))

\* Object.values(counts).reduce((sum, count) => sum + count, 0)
RECURSIVE SumValues(_)
SumValues(counts) ==
    IF DOMAIN counts = {} THEN 0
    ELSE LET l == CHOOSE x \in DOMAIN counts : TRUE
         IN  counts[l] + SumValues([x \in DOMAIN counts \ {l} |-> counts[x]])

----------------------------------------------------------------------------
(* The vault: files, their front matter, the host's metadata cache *)

Files == 1..NumFiles

\* the file has no front-matter block
NoFrontmatter == [exists |-> FALSE, properties |-> <<>>]
\* the file has a front-matter block with these properties, in this order
Frontmatter(properties) == [exists |-> TRUE, properties |-> properties]

\* a number as the characters of its decimal notation
RECURSIVE DigitsOf(_)
DigitsOf(n) ==
    IF n < 10 THEN <<Digits[n + 1]>>
    ELSE DigitsOf(n \div 10) \o <<Digits[(n % 10) + 1]>>

RECURSIVE PropertyLines(_)
PropertyLines(properties) ==
    IF properties = <<>> THEN <<>>
    ELSE <<properties[1].key, ":", " ">> \o DigitsOf(properties[1].value) \o <<LF>>
         \o PropertyLines(Tail(properties))

Fence == <<"-", "-", "-", LF>>

\* the front-matter block as it stands in the file
FrontmatterText(fm) ==
    IF fm.exists THEN Fence \o PropertyLines(fm.properties) \o Fence ELSE <<>>

\* frontmatter[propertyName] = value, within processFrontMatter: the block is
\* created when the file has none, other properties are left as they are
updateFileProperty(fm, propertyName, value) ==
    LET old == fm.properties
        new == [key |-> propertyName, value |-> value]
    IN  IF \E i \in 1..Len(old) : old[i].key = propertyName
        THEN Frontmatter([i \in 1..Len(old) |->
                            IF old[i].key = propertyName THEN new ELSE old[i]])
        ELSE Frontmatter(Append(old, new))

\* what vault.cachedRead returns for a readable file
ContentOf(f) == FrontmatterText(frontmatter[f]) \o bodyText[f]

\* the headings of the cache that lie after the front matter:
\* headings.filter(h => h.position.start.line > fmEnd)
getCachedHeadings(cache) ==
    LET fmPos == FrontmatterPositionOf(cache)
        fmEnd == IF fmPos = NoSpan THEN -1 ELSE fmPos.end
        After(h) == h.line > fmEnd
    IN  IF cache = NullCache THEN <<>> ELSE SelectSeq(cache.headings, After)

\* the front-matter span the host records for a block: from its opening fence
\* on line 0 to its closing fence
FrontmatterSpan(fm) ==
    IF fm.exists THEN Span(0, Len(fm.properties) + 1) ELSE NoSpan

FrontmatterLineCount(fm) == IF fm.exists THEN Len(fm.properties) + 2 ELSE 0

\* the host indexes the file again after processFrontMatter has changed it:
\* the span follows the block, the headings of the body move with it
Reindexed(cache, before, after) ==
    IF cache = NullCache THEN NullCache
    ELSE [frontmatterPosition |-> FrontmatterSpan(after),
          headings |-> [i \in 1..Len(cache.headings) |->
                [cache.headings[i] EXCEPT !.line =
                    @ + FrontmatterLineCount(after) - FrontmatterLineCount(before)]]]


----------------------------------------------------------------------------
(* Counter configurations *)

Undefined == [kind |-> "undefined"]
\* the number n, and the number n + 1/2
Num(n) == [kind |-> "number", value |-> n, fraction |-> FALSE]
NumAndHalf(n) == [kind |-> "number", value |-> n, fraction |-> TRUE]
\* a string, as its characters
Str(s) == [kind |-> "string", value |-> s]

\* a number of JavaScript: NaN, the integer n, or a number between n and n + 1
NaN == [nan |-> TRUE, value |-> 0, fraction |-> FALSE]
Finite(n) == [nan |-> FALSE, value |-> n, fraction |-> FALSE]
Fractional(n) == [nan |-> FALSE, value |-> n, fraction |-> TRUE]

\* x < n and x > n for a number x that is not NaN and an integer n
LessThan(x, n) == x.value < n
GreaterThan(x, n) == x.value > n \/ (x.value = n /\ x.fraction)

IsDigit(c) == \E d \in 1..Len(Digits) : Digits[d] = c
DigitValue(c) == (CHOOSE d \in 1..Len(Digits) : Digits[d] = c) - 1

RECURSIVE DecimalValue(_)
DecimalValue(ds) ==
    IF ds = <<>> THEN 0
    ELSE 10 * DecimalValue(SubSeq(ds, 1, Len(ds) - 1)) + DigitValue(ds[Len(ds)])

\* Number(s) for a string: white space around it is dropped; the empty string
\* is 0; a sign, digits, a point and digits (one digit at least) is that
\* number; anything else the model's strings can hold is NaN
StringToNumber(s) ==
    LET t == Trim(s)
        signed == t # <<>> /\ t[1] \in {"-", "+"}
        negative == t # <<>> /\ t[1] = "-"
        u == IF signed THEN Tail(t) ELSE t
        points == {i \in 1..Len(u) : u[i] = "."}
        point == IF points = {} THEN Len(u) + 1
                 ELSE CHOOSE i \in points : \A j \in points : i <= j
        whole == SubSeq(u, 1, point - 1)
        decimals == SubSeq(u, point + 1, Len(u))
        wellFormed == /\ \A i \in 1..Len(whole) : IsDigit(whole[i])
                      /\ \A i \in 1..Len(decimals) : IsDigit(decimals[i])
                      /\ Len(whole) + Len(decimals) >= 1
        fractional == \E i \in 1..Len(decimals) : decimals[i] # "0"
        magnitude == DecimalValue(whole)
    IN  IF t = <<>> THEN Finite(0)
        ELSE IF ~wellFormed THEN NaN
        ELSE IF ~fractional THEN Finite(IF negative THEN 0 - magnitude ELSE magnitude)
        ELSE IF negative THEN Fractional(0 - magnitude - 1)
        ELSE Fractional(magnitude)

\* Number(parameter) for a parameter that is not undefined
ToNumber(parameter) ==
    IF parameter.kind = "number"
    THEN (IF parameter.fraction THEN Fractional(parameter.value)
          ELSE Finite(parameter.value))
    ELSE StringToNumber(parameter.value)

CounterTypes ==
    {"wordCount", "charCountWithSpaces", "charCountWithoutSpaces", "lineCount",
     "headingCount", "headingLevelCount"}

Config(id, type, property, enabled, parameter) ==
    [id |-> id, type |-> type, property |-> property, enabled |-> enabled,
     parameter |-> parameter]

\* the configurations settings.calculations is made of: added in the settings
\* tab, or imported (an imported one may have any type and parameter)
ConfigPool ==
    {Config(1, "wordCount", "p", TRUE, Undefined),
     Config(2, "headingLevelCount", "q", TRUE, Num(1)),
     Config(3, "headingLevelCount", "r", TRUE, Undefined),
     Config(4, "headingLevelCount", "p", TRUE, Num(7)),
     Config(5, "imported", "q", TRUE, Undefined),
     Config(6, "headingCount", "r", TRUE, Undefined),
     Config(7, "lineCount", "q", FALSE, Undefined)}

\* the lists of at most n configurations with different ids
ConfigLists(n) ==
    UNION {{l \in [1..k -> ConfigPool] :
                \A i, j \in 1..k : i # j => l[i].id # l[j].id} : k \in 0..n}

\* the list as it is, not filtered
NotFiltered(configs) == configs

\* counterConfigs.filter(config => config.enabled)
EnabledOf(configs) ==
    LET IsEnabled(c) == c.enabled IN SelectSeq(configs, IsEnabled)

\* validateCounterConfig returns null, or the message of a rule
NoError == [error |-> FALSE, message |-> ""]
Error(message) == [error |-> TRUE, message |-> message]

PropertyRequired == Error("Property name is required")
PropertyInUse == Error("Property name is already used by another calculation")
TypeRequired == Error("Counter type is required")
LevelOutOfRange == Error("Heading level must be between 1 and 6")

\* existingConfigs.some(existing => existing.id !== config.id &&
\*                                  existing.property === prop)
IsDuplicate(config, existingConfigs) ==
    \E i \in 1..Len(existingConfigs) :
        /\ existingConfigs[i].id # config.id
        /\ existingConfigs[i].property = Trim(config.property)

\* the parameter is defined, the type is headingLevelCount, and
\* isNaN(level) || level < 1 || level > 6
IsBadLevel(config) ==
    /\ config.parameter.kind # "undefined"
    /\ config.type = "headingLevelCount"
    /\ LET level == ToNumber(config.parameter)
       IN  level.nan \/ LessThan(level, 1) \/ GreaterThan(level, 6)

\* the same, with the type looked at before the property
validateCounterConfigTypeFirst(config, existingConfigs) ==
    IF config.type = "" THEN TypeRequired
    ELSE IF Trim(config.property) = <<>> THEN PropertyRequired
    ELSE IF IsDuplicate(config, existingConfigs) THEN PropertyInUse
    ELSE IF IsBadLevel(config) THEN LevelOutOfRange
    ELSE NoError

\* a property is a string of characters here; a missing type is ''
validateCounterConfig(config, existingConfigs) ==
    IF Trim(config.property) = <<>> THEN PropertyRequired
    ELSE IF IsDuplicate(config, existingConfigs) THEN PropertyInUse
    ELSE IF config.type = "" THEN TypeRequired
    ELSE IF IsBadLevel(config) THEN LevelOutOfRange
    ELSE NoError


----------------------------------------------------------------------------
(* calculateBaseStats and getCountForType *)

\* the visible text of a line: a heading without its marker
VisibleLine(line) ==
    IF HeadingMatch(line).matched THEN HeadingMatch(line).rest ELSE line

RECURSIVE VisibleLines(_)
VisibleLines(lines) ==
    IF lines = <<>> THEN <<>> ELSE <<VisibleLine(lines[1])>> \o VisibleLines(Tail(lines))

RenderModes == {"source", "visible"}

\* MarkdownRenderer.render into a div, then its innerText: the host's
\* rendering, one of two here: the text as it is, or without heading markers
Render(mode, content) ==
    IF mode = "source" THEN content ELSE JoinLines(VisibleLines(SplitLines(content)))

NoStats == [none |-> TRUE]

\* the same, with the number of levels taken for the number of headings
calculateBaseStatsCountsLevels(content, mode) ==
    LET cleanText == Render(mode, content)
        headingsByLevel == countHeadingsByLevel(content)
    IN  [wordCount |-> countWords(cleanText),
         charCountWithSpaces |-> countCharactersWithSpaces(cleanText),
         charCountWithoutSpaces |-> countCharactersWithoutSpaces(cleanText),
         lineCount |-> countLines(content),
         headingCount |-> Cardinality(DOMAIN headingsByLevel),
         headingsByLevel |-> headingsByLevel]

\* the same, with the lines counted in the rendered text
FileStatsLinesOfCleanText(content, cleanText) ==
    LET headingsByLevel == countHeadingsByLevel(content)
    IN  [wordCount |-> countWords(cleanText),
         charCountWithSpaces |-> countCharactersWithSpaces(cleanText),
         charCountWithoutSpaces |-> countCharactersWithoutSpaces(cleanText),
         lineCount |-> countLines(cleanText),
         headingCount |-> SumValues(headingsByLevel),
         headingsByLevel |-> headingsByLevel]

\* calculateBaseStats once the renderer has given cleanText: words and
\* characters of the clean text, lines and headings of the content
FileStats(content, cleanText) ==
    LET headingsByLevel == countHeadingsByLevel(content)
    IN  [wordCount |-> countWords(cleanText),
         charCountWithSpaces |-> countCharactersWithSpaces(cleanText),
         charCountWithoutSpaces |-> countCharactersWithoutSpaces(cleanText),
         lineCount |-> countLines(content),
         headingCount |-> SumValues(headingsByLevel),
         headingsByLevel |-> headingsByLevel]

calculateBaseStats(content, mode) == FileStats(content, Render(mode, content))

Value(n) == [ok |-> TRUE, value |-> n]
Throws(message) == [ok |-> FALSE, error |-> message]

\* the same, with 0 for the heading level that is not one of 1..6
getCountForTypeOrZero(type, stats, parameter) ==
    CASE type = "wordCount" -> Value(stats.wordCount)
      [] type = "charCountWithSpaces" -> Value(stats.charCountWithSpaces)
      [] type = "charCountWithoutSpaces" -> Value(stats.charCountWithoutSpaces)
      [] type = "lineCount" -> Value(stats.lineCount)
      [] type = "headingCount" -> Value(stats.headingCount)
      [] type = "headingLevelCount" ->
            IF parameter = Undefined
            THEN Throws("Heading level parameter is required")
            ELSE LET level == ToNumber(parameter)
                 IN  IF ~level.nan /\ ~level.fraction
                        /\ level.value \in DOMAIN stats.headingsByLevel
                     THEN Value(stats.headingsByLevel[level.value])
                     ELSE Value(0)
      [] OTHER -> Throws("Unknown counter type")

getCountForType(type, stats, parameter) ==
    CASE type = "wordCount" -> Value(stats.wordCount)
      [] type = "charCountWithSpaces" -> Value(stats.charCountWithSpaces)
      [] type = "charCountWithoutSpaces" -> Value(stats.charCountWithoutSpaces)
      [] type = "lineCount" -> Value(stats.lineCount)
      [] type = "headingCount" -> Value(stats.headingCount)
      [] type = "headingLevelCount" ->
            IF parameter = Undefined
            THEN Throws("Heading level parameter is required")
            ELSE LET level == ToNumber(parameter)
                 IN  IF level.nan \/ LessThan(level, 1) \/ GreaterThan(level, 6)
                     THEN Throws("Heading level must be between 1 and 6")
                     ELSE IF ~level.fraction /\ level.value \in DOMAIN stats.headingsByLevel
                     THEN Value(stats.headingsByLevel[level.value])
                     ELSE Value(0)
      [] OTHER -> Throws("Unknown counter type")


----------------------------------------------------------------------------
(* The engine: one invocation at a time, a step per await *)

\* notices holds what has been shown since the last invocation started
Notice(message, a, b) == [message |-> message, a |-> a, b |-> b]

\* results = {}
NoResults == [k \in {} |-> 0]

\* results[config.property] = value
ResultsPut(results, property, value) ==
    [k \in DOMAIN results \cup {property} |->
        IF k = property THEN value ELSE results[k]]

IdlePass ==
    [op |-> "none", caller |-> "none", file |-> 0, pc |-> "idle",
     enabledConfigs |-> <<>>, index |-> 0, stats |-> NoStats,
     results |-> NoResults, outcomes |-> <<>>]

\* enabledConfigs is the constant of calculateAllFiles, filtered once before
\* the loop
IdleBatch ==
    [pc |-> "idle", index |-> 0, processed |-> 0, total |-> 0, attempted |-> <<>>,
     enabledConfigs |-> <<>>]

\* no timer is pending, no slot is taken
NoTimers == [f \in Files |-> 0]
NoPasses == [slot \in 1..MaxPasses |-> IdlePass]

Idle == pass.pc = "idle" /\ batch.pc = "idle"

\* the loop over the enabled configurations goes on to the next one, or ends
\* and the results are returned
NextConfig(p) ==
    [p EXCEPT !.index = p.index + 1,
              !.pc = IF p.index + 1 = Len(p.enabledConfigs) THEN "returned" ELSE "configs"]

\* the property was written: results[config.property] = value
ConfigWritten(p, property, value) ==
    [NextConfig(p) EXCEPT !.results = ResultsPut(p.results, property, value),
                          !.outcomes = Append(p.outcomes, "written")]

\* without the catch inside the loop: the error leaves the loop
ConfigFailedLeavesLoop(p, outcome) ==
    [p EXCEPT !.pc = "threw", !.outcomes = Append(p.outcomes, outcome)]

\* the catch inside the loop: the error is logged, the loop goes on
ConfigFailed(p, outcome) ==
    [NextConfig(p) EXCEPT !.outcomes = Append(p.outcomes, outcome)]

\* await updateFileProperty went through: the file has the property, and the
\* host's index follows the file
WriteProperty(f, propertyName, value) ==
    LET after == updateFileProperty(frontmatter[f], propertyName, value)
    IN  /\ frontmatter' = [frontmatter EXCEPT ![f] = after]
        /\ metadataCache' = [metadataCache EXCEPT ![f] =
                                Reindexed(@, frontmatter[f], after)]

\* calculateFileStats up to its first await: the enabled configurations are
\* filtered out of the list handed over; none enabled returns {} at once
CalculateFileStatsCall(f, caller) ==
    LET enabledConfigs == EnabledOf(calculations)
    IN  [IdlePass EXCEPT !.op = "calculateFileStats", !.caller = caller, !.file = f,
                         !.enabledConfigs = enabledConfigs,
                         !.pc = IF enabledConfigs = <<>> THEN "returned" ELSE "read"]

\* the command 'Calculate Statistics for Current Note', f the active file.
\* isFileProcessable is async and is not awaited here: the test is of the
\* promise, which is never falsy, so the command goes on for every file
RunCalculationCommand(f) ==
    /\ Idle
    /\ IF EnabledOf(calculations) = <<>>
       THEN /\ notices' = <<Notice("No calculations are enabled", 0, 0)>>
            /\ UNCHANGED pass
       ELSE /\ notices' = <<Notice("Calculating statistics...", 0, 0)>>
            /\ pass' = CalculateFileStatsCall(f, "command")
    /\ UNCHANGED <<calculations, readable, frontmatter, bodyText, metadataCache,
                   renderer, batch>>

\* the button 'Test Now' of the settings tab, f the active file
TestNow(f) ==
    /\ Idle
    /\ notices' = <<>>
    /\ pass' = CalculateFileStatsCall(f, "test")
    /\ UNCHANGED <<calculations, readable, frontmatter, bodyText, metadataCache,
                   renderer, batch>>

\* the outer catch returning the empty results in place of throwing
CaughtAndReturned(p) == [p EXCEPT !.pc = "returned"]

\* the outer catch: throw new Error(msg)
CaughtAndRethrown(p) == [p EXCEPT !.pc = "threw"]

\* await getFileBody, await calculateBaseStats; a failed read goes to the
\* outer catch, which shows a notice and throws
CalculateFileStatsRead ==
    /\ pass.op = "calculateFileStats"
    /\ pass.pc = "read"
    /\ IF readable[pass.file]
       THEN /\ pass' = [pass EXCEPT
                    !.stats = calculateBaseStats(
                        getFileBody(ContentOf(pass.file), metadataCache[pass.file]),
                        renderer),
                    !.pc = "configs"]
            /\ UNCHANGED notices
       ELSE /\ pass' = CaughtAndRethrown(pass)
            /\ notices' = Append(notices, Notice("Error calculating statistics", 0, 0))
    /\ UNCHANGED <<calculations, readable, frontmatter, bodyText, metadataCache,
                   renderer, batch>>

\* one turn of the loop: the projection, then await updateFileProperty, which
\* the host may fail
CalculateFileStatsConfig ==
    /\ pass.op = "calculateFileStats"
    /\ pass.pc = "configs"
    /\ LET config == pass.enabledConfigs[pass.index + 1]
           count == getCountForType(config.type, pass.stats, config.parameter)
       IN  IF ~count.ok
           THEN /\ pass' = ConfigFailed(pass, "projection failed")
                /\ notices' = Append(notices, Notice("Error calculating", config.id, 0))
                /\ UNCHANGED <<frontmatter, metadataCache>>
           ELSE \E written \in BOOLEAN :
                IF written
                THEN /\ WriteProperty(pass.file, config.property, count.value)
                     /\ pass' = ConfigWritten(pass, config.property, count.value)
                     /\ UNCHANGED notices
                ELSE /\ pass' = ConfigFailed(pass, "write failed")
                     /\ notices' = Append(notices, Notice("Error calculating", config.id, 0))
                     /\ UNCHANGED <<frontmatter, metadataCache>>
    /\ UNCHANGED <<calculations, readable, bodyText, renderer, batch>>

\* the command has its results, or the error
RunCalculationCommandDone ==
    /\ pass.caller = "command"
    /\ pass.pc \in {"returned", "threw"}
    /\ notices' = Append(notices,
            IF pass.pc = "threw" THEN Notice("Calculation failed", 0, 0)
            ELSE IF DOMAIN pass.results # {}
            THEN Notice("Calculation completed successfully!", Cardinality(DOMAIN pass.results), 0)
            ELSE Notice("No calculations were performed", 0, 0))
    /\ pass' = IdlePass
    /\ UNCHANGED <<calculations, readable, frontmatter, bodyText, metadataCache,
                   renderer, batch>>

TestNowDone ==
    /\ pass.caller = "test"
    /\ pass.pc \in {"returned", "threw"}
    /\ notices' = Append(notices,
            IF pass.pc = "threw" THEN Notice("Test failed", 0, 0)
            ELSE IF DOMAIN pass.results # {}
            THEN Notice("Test completed!", Cardinality(DOMAIN pass.results), 0)
            ELSE Notice("Test completed, but no calculations were enabled.", 0, 0))
    /\ pass' = IdlePass
    /\ UNCHANGED <<calculations, readable, frontmatter, bodyText, metadataCache,
                   renderer, batch>>


\* the command 'Calculate Statistics for All Notes', once confirmed, and
\* calculateAllFiles up to its loop
RunBatchCalculationCommand ==
    /\ Idle
    /\ IF EnabledOf(calculations) = <<>>
       THEN /\ notices' = <<Notice("No calculations are enabled", 0, 0)>>
            /\ UNCHANGED batch
       ELSE /\ notices' = <<Notice("Starting batch calculation", NumFiles, 0)>>
            /\ batch' = [IdleBatch EXCEPT !.pc = "loop", !.total = NumFiles,
                                  !.enabledConfigs = EnabledOf(calculations)]
    /\ UNCHANGED <<calculations, readable, frontmatter, bodyText, metadataCache,
                   renderer, pass>>

\* the call made and not awaited: the loop is at the next file already
CalledNotAwaited(b) ==
    [b EXCEPT !.index = b.index + 1,
              !.pc = IF b.index + 1 = b.total THEN "returned" ELSE "loop",
              !.attempted = Append(b.attempted, b.index + 1)]

\* await calculateFileStats(file, counterConfigs): the loop stays at this
\* file until the call is over
AwaitingCall(b) ==
    [b EXCEPT !.pc = "awaiting", !.attempted = Append(b.attempted, b.index + 1)]

\* for (const file of files): await calculateFileStats(file, counterConfigs)
CalculateAllFilesNextFile ==
    /\ batch.pc = "loop"
    /\ pass.pc = "idle"
    /\ pass' = CalculateFileStatsCall(batch.index + 1, "batch")
    /\ batch' = AwaitingCall(batch)
    /\ UNCHANGED <<calculations, readable, frontmatter, bodyText, metadataCache,
                   renderer, notices>>

\* Math.floor(total / 10) in its place
ProgressStepFloor(total) == total \div 10

\* Math.ceil(total / 10)
ProgressStep(total) == (total + 9) \div 10

\* the loop goes on to the next file, or is over
NextFile(b) ==
    [b EXCEPT !.index = b.index + 1,
              !.pc = IF b.index + 1 = b.total THEN "returned" ELSE "loop"]

\* the call returned: processed++
FileProcessed(b) == [NextFile(b) EXCEPT !.processed = b.processed + 1]

\* the catch of the loop counting the file as processed all the same
FileFailedCounted(b) == FileProcessed(b)

\* the call threw: the catch of the loop logs the error
FileFailed(b) == NextFile(b)

\* what the loop makes of the batch when the file's call is over
AfterFile(b, returned) == IF returned THEN FileProcessed(b) ELSE FileFailed(b)

\* 'Show progress for large batches', within the try, after processed++
ProgressNotices(b, returned) ==
    IF /\ returned
       /\ b.total > 10
       /\ AfterFile(b, returned).processed % ProgressStep(b.total) = 0
    THEN <<Notice("Progress", AfterFile(b, returned).processed, b.total)>>
    ELSE <<>>

\* the notice after the loop
SummaryNotices(b, returned) ==
    IF AfterFile(b, returned).pc = "returned"
    THEN <<Notice("Batch calculation completed", AfterFile(b, returned).processed, b.total)>>
    ELSE <<>>

\* the file's call is over; after the last file, the summary
CalculateAllFilesAfterFile ==
    /\ batch.pc = "awaiting"
    /\ pass.caller = "batch"
    /\ pass.pc \in {"returned", "threw"}
    /\ batch' = AfterFile(batch, pass.pc = "returned")
    /\ notices' = notices \o ProgressNotices(batch, pass.pc = "returned")
                          \o SummaryNotices(batch, pass.pc = "returned")
    /\ pass' = IdlePass
    /\ UNCHANGED <<calculations, readable, frontmatter, bodyText, metadataCache, renderer>>

\* calculateAllFiles has returned to the command
RunBatchCalculationCommandDone ==
    /\ batch.pc = "returned"
    /\ batch' = IdleBatch
    /\ UNCHANGED <<calculations, readable, frontmatter, bodyText, metadataCache,
                   renderer, pass, notices>>


\* what the cache-assisted path takes from the host's index: nothing, or the
\* headings by level and their number
NoCachedResults == [has |-> FALSE, headingCount |-> 0, headingsByLevel |-> NoCounts]

CachedResultsOf(cache) ==
    LET cachedHeadings == getCachedHeadings(cache)
        headingsByLevel == CountLevels(LevelsOf(cachedHeadings))
    IN  IF cache # NullCache /\ cachedHeadings # <<>>
        THEN [has |-> TRUE, headingCount |-> SumValues(headingsByLevel),
              headingsByLevel |-> headingsByLevel]
        ELSE NoCachedResults

\* enabledConfigs.some(...): a configuration the index cannot answer
NeedsContent(enabledConfigs, cachedResults) ==
    \E i \in 1..Len(enabledConfigs) :
        \/ enabledConfigs[i].type \in
                {"wordCount", "charCountWithSpaces", "charCountWithoutSpaces", "lineCount"}
        \/ enabledConfigs[i].type = "headingCount"
            /\ ~(cachedResults.has /\ cachedResults.headingCount # 0)
        \/ enabledConfigs[i].type = "headingLevelCount" /\ ~cachedResults.has

\* 'Use cached data only'
CachedOnlyStats(cachedResults) ==
    [wordCount |-> 0,
     charCountWithSpaces |-> 0,
     charCountWithoutSpaces |-> 0,
     lineCount |-> 0,
     headingCount |-> cachedResults.headingCount,
     headingsByLevel |-> cachedResults.headingsByLevel]

\* calculateFileStatsFromCache up to its first await
CalculateFileStatsFromCacheStart(f) ==
    LET enabledConfigs == EnabledOf(calculations)
        cachedResults == CachedResultsOf(metadataCache[f])
        started == [IdlePass EXCEPT !.op = "calculateFileStatsFromCache",
                                    !.caller = "modify", !.file = f,
                                    !.enabledConfigs = enabledConfigs]
    IN  IF enabledConfigs = <<>> THEN [started EXCEPT !.pc = "returned"]
        ELSE IF NeedsContent(enabledConfigs, cachedResults)
        THEN [started EXCEPT !.pc = "read"]
        ELSE [started EXCEPT !.pc = "configs",
                             !.stats = CachedOnlyStats(cachedResults)]

\* the timer of the 'modify' handler fires for f
CalculateFileStatsFromCacheCall(f) ==
    /\ Idle
    /\ pass' = CalculateFileStatsFromCacheStart(f)
    /\ notices' = <<>>
    /\ UNCHANGED <<calculations, readable, frontmatter, bodyText, metadataCache,
                   renderer, batch>>

\* await getFileBody, await calculateBaseStats, outside any try
CalculateFileStatsFromCacheRead ==
    /\ pass.op = "calculateFileStatsFromCache"
    /\ pass.pc = "read"
    /\ pass' =
        IF readable[pass.file]
        THEN [pass EXCEPT
                !.stats = calculateBaseStats(
                    getFileBody(ContentOf(pass.file), metadataCache[pass.file]),
                    renderer),
                !.pc = "configs"]
        ELSE [pass EXCEPT !.pc = "threw"]
    /\ UNCHANGED <<calculations, readable, frontmatter, bodyText, metadataCache,
                   renderer, batch, notices>>

\* one turn of the loop of the cache-assisted path: errors are logged only
CalculateFileStatsFromCacheConfig ==
    /\ pass.op = "calculateFileStatsFromCache"
    /\ pass.pc = "configs"
    /\ LET config == pass.enabledConfigs[pass.index + 1]
           count == getCountForType(config.type, pass.stats, config.parameter)
       IN  IF ~count.ok
           THEN /\ pass' = ConfigFailed(pass, "projection failed")
                /\ UNCHANGED <<frontmatter, metadataCache>>
           ELSE \E written \in BOOLEAN :
                IF written
                THEN /\ WriteProperty(pass.file, config.property, count.value)
                     /\ pass' = ConfigWritten(pass, config.property, count.value)
                ELSE /\ pass' = ConfigFailed(pass, "write failed")
                     /\ UNCHANGED <<frontmatter, metadataCache>>
    /\ UNCHANGED <<calculations, readable, bodyText, renderer, batch, notices>>

\* the timer callback has its results, or logs the error
AutoCalculateDone ==
    /\ pass.caller = "modify"
    /\ pass.pc \in {"returned", "threw"}
    /\ pass' = IdlePass
    /\ UNCHANGED <<calculations, readable, frontmatter, bodyText, metadataCache,
                   renderer, batch, notices>>

\* file.extension is 'md' for every file of the vault here; adapter.exists
isFileProcessable(f) == readable[f]

\* the command 'Preview Statistics', and getPreviewStats up to its read
PreviewStatsCommand(f) ==
    /\ Idle
    /\ notices' = <<>>
    /\ pass' = [IdlePass EXCEPT !.op = "getPreviewStats", !.caller = "preview", !.file = f,
                                !.pc = IF isFileProcessable(f) THEN "read" ELSE "threw"]
    /\ UNCHANGED <<calculations, readable, frontmatter, bodyText, metadataCache,
                   renderer, batch>>

\* the same, with the word count written to a property as calculateFileStats
\* writes it
GetPreviewStatsReadAndWrite ==
    /\ pass.op = "getPreviewStats"
    /\ pass.pc = "read"
    /\ pass' = [pass EXCEPT
                !.stats = calculateBaseStats(
                    getFileBody(ContentOf(pass.file), metadataCache[pass.file]),
                    renderer),
                !.pc = "returned"]
    /\ WriteProperty(pass.file, "p", pass'.stats.wordCount)
    /\ UNCHANGED <<calculations, readable, bodyText, renderer, batch, notices>>

\* await getFileBody, return await calculateBaseStats
GetPreviewStatsRead ==
    /\ pass.op = "getPreviewStats"
    /\ pass.pc = "read"
    /\ pass' =
        IF readable[pass.file]
        THEN [pass EXCEPT
                !.stats = calculateBaseStats(
                    getFileBody(ContentOf(pass.file), metadataCache[pass.file]),
                    renderer),
                !.pc = "returned"]
        ELSE [pass EXCEPT !.pc = "threw"]
    /\ UNCHANGED <<calculations, readable, frontmatter, bodyText, metadataCache,
                   renderer, batch, notices>>

\* the command shows the statistics, or the error
PreviewStatsCommandDone ==
    /\ pass.caller = "preview"
    /\ pass.pc \in {"returned", "threw"}
    /\ notices' = Append(notices,
            IF pass.pc = "threw" THEN Notice("Preview failed", 0, 0)
            ELSE Notice("Statistics for", pass.stats.wordCount, pass.stats.headingCount))
    /\ pass' = IdlePass
    /\ UNCHANGED <<calculations, readable, frontmatter, bodyText, metadataCache,
                   renderer, batch>>

----------------------------------------------------------------------------
(* Spec: the engine over a small vault *)

DocKinds == {"note", "properties", "uncached", "deleted"}

\* '# a', '# b', '## c'
NoteBody == <<HASH, " ", "a", LF, HASH, " ", "b", LF, HASH, HASH, " ", "c">>
\* ' # a' is a heading to the host, not to extractHeadings
PropertiesBody == <<" ", HASH, " ", "a", LF, "c", "-", "d">>
UncachedBody == <<"c", " ", "d", LF>>

BodyOfKind(kind) ==
    CASE kind = "note" -> NoteBody
      [] kind = "properties" -> PropertiesBody
      [] kind = "uncached" -> UncachedBody
      [] OTHER -> <<>>

FrontmatterOfKind(kind) ==
    IF kind = "properties" THEN Frontmatter(<<[key |-> "t", value |-> 7]>>)
    ELSE NoFrontmatter

CacheOfKind(kind) ==
    CASE kind = "note" ->
            [frontmatterPosition |-> NoSpan,
             headings |-> <<[level |-> 1, line |-> 0], [level |-> 1, line |-> 1],
                            [level |-> 2, line |-> 2]>>]
      [] kind = "properties" ->
            [frontmatterPosition |-> FrontmatterSpan(FrontmatterOfKind(kind)),
             headings |-> <<[level |-> 1, line |-> 3]>>]
      [] OTHER -> NullCache

Init ==
    /\ calculations \in ConfigLists(MaxConfigs)
    /\ renderer \in RenderModes
    /\ \E kinds \in [Files -> DocKinds] :
        /\ readable = [f \in Files |-> kinds[f] # "deleted"]
        /\ frontmatter = [f \in Files |-> FrontmatterOfKind(kinds[f])]
        /\ bodyText = [f \in Files |-> BodyOfKind(kinds[f])]
        /\ metadataCache = [f \in Files |-> CacheOfKind(kinds[f])]
    /\ pass = IdlePass
    /\ timers = NoTimers
    /\ passes = NoPasses
    /\ batch = IdleBatch
    /\ notices = <<>>
    /\ text = <<>>
    /\ fn = "input"
    /\ result = <<>>

Next ==
    \/ \E f \in Files : RunCalculationCommand(f) /\ UNCHANGED <<textVars, schedVars>>
    \/ \E f \in Files : TestNow(f) /\ UNCHANGED <<textVars, schedVars>>
    \/ CalculateFileStatsRead /\ UNCHANGED <<textVars, schedVars>>
    \/ CalculateFileStatsConfig /\ UNCHANGED <<textVars, schedVars>>
    \/ RunCalculationCommandDone /\ UNCHANGED <<textVars, schedVars>>
    \/ TestNowDone /\ UNCHANGED <<textVars, schedVars>>
    \/ RunBatchCalculationCommand /\ UNCHANGED <<textVars, schedVars>>
    \/ CalculateAllFilesNextFile /\ UNCHANGED <<textVars, schedVars>>
    \/ CalculateAllFilesAfterFile /\ UNCHANGED <<textVars, schedVars>>
    \/ RunBatchCalculationCommandDone /\ UNCHANGED <<textVars, schedVars>>
    \/ \E f \in Files : CalculateFileStatsFromCacheCall(f) /\ UNCHANGED <<textVars, schedVars>>
    \/ CalculateFileStatsFromCacheRead /\ UNCHANGED <<textVars, schedVars>>
    \/ CalculateFileStatsFromCacheConfig /\ UNCHANGED <<textVars, schedVars>>
    \/ AutoCalculateDone /\ UNCHANGED <<textVars, schedVars>>
    \/ \E f \in Files : PreviewStatsCommand(f) /\ UNCHANGED <<textVars, schedVars>>
    \/ GetPreviewStatsRead /\ UNCHANGED <<textVars, schedVars>>
    \/ PreviewStatsCommandDone /\ UNCHANGED <<textVars, schedVars>>

Spec == Init /\ [][Next]_vars


----------------------------------------------------------------------------
(* SpecText: every function applied to every input of a bounded set *)

\* a letter outside [A-Za-z]
NonAsciiLetter == "é"

Alphabet == {"a", "1", "_", NonAsciiLetter, "-", " ", LF, CR, HASH}

\* every string over Alphabet of length at most n
Strings(n) == UNION {[1..k -> Alphabet] : k \in 0..n}

RECURSIVE Hashes(_)
Hashes(n) == IF n = 0 THEN <<>> ELSE <<HASH>> \o Hashes(n - 1)

\* heading-like lines: a run of '#', then whitespace or none, then content or none
HeadingLines ==
    {Hashes(h) \o ws \o c :
        h \in 0..MaxHashes,
        ws \in {<<>>, <<" ">>, <<"\t", " ">>},
        c \in {<<>>, <<"a", " ">>, <<"b">>}}

\* documents of n lines, the last a heading-like line
RECURSIVE DocsOfLines(_)
DocsOfLines(n) ==
    IF n = 1 THEN HeadingLines
    ELSE {f \o t \o d :
            f \in {<<>>, <<"a">>, <<HASH, " ", "b">>},
            t \in {<<LF>>, <<CR, LF>>},
            d \in DocsOfLines(n - 1)}

Inputs == Strings(MaxLen) \cup UNION {DocsOfLines(n) : n \in 1..MaxDocLines}

\* the spans the metadata index may hand over, malformed ones included
Spans == {Span(s, e) : s \in 0..MaxSpanLine, e \in 0..MaxSpanLine}

\* what getFileCache may return for the input: nothing, a cache without a
\* front-matter span, a cache with one
TextCaches ==
    {NullCache}
    \cup {[frontmatterPosition |-> p, headings |-> <<>>] : p \in Spans \cup {NoSpan}}

InitText ==
    /\ text \in Inputs
    /\ fn = "input"
    /\ result = <<>>
    /\ calculations = <<>>
    /\ renderer = "source"
    /\ readable = [f \in Files |-> FALSE]
    /\ frontmatter = [f \in Files |-> NoFrontmatter]
    /\ bodyText = [f \in Files |-> <<>>]
    /\ metadataCache = [f \in Files |-> NullCache]
    /\ pass = IdlePass
    /\ timers = NoTimers
    /\ passes = NoPasses
    /\ batch = IdleBatch
    /\ notices = <<>>

Apply(name, value) ==
    /\ fn = "input"
    /\ fn' = name
    /\ result' = value
    /\ UNCHANGED <<text, engineVars, schedVars>>

ApplyCountWords == Apply("countWords", countWords(text))

ApplyCountCharactersWithSpaces ==
    Apply("countCharactersWithSpaces", countCharactersWithSpaces(text))

ApplyCountCharactersWithoutSpaces ==
    Apply("countCharactersWithoutSpaces", countCharactersWithoutSpaces(text))

ApplyCountLines == Apply("countLines", countLines(text))

ApplyExtractHeadings == Apply("extractHeadings", extractHeadings(text))

ApplyCountHeadingsByLevel ==
    Apply("countHeadingsByLevel", countHeadingsByLevel(text))

ApplyGetFileBody ==
    \E cache \in TextCaches :
        Apply("getFileBody", [cache |-> cache, body |-> getFileBody(text, cache)])

\* calculateBaseStats of the input as the body, under either rendering
ApplyCalculateBaseStats ==
    \E mode \in RenderModes :
        Apply("calculateBaseStats",
              [mode |-> mode, stats |-> calculateBaseStats(text, mode)])

NextText ==
    \/ ApplyCalculateBaseStats
    \/ ApplyCountWords
    \/ ApplyCountCharactersWithSpaces
    \/ ApplyCountCharactersWithoutSpaces
    \/ ApplyCountLines
    \/ ApplyExtractHeadings
    \/ ApplyCountHeadingsByLevel
    \/ ApplyGetFileBody

SpecText == InitText /\ [][NextText]_vars

----------------------------------------------------------------------------
(* SpecValidate: validateCounterConfig applied to every candidate and every
   list of existing configurations of a bounded set *)

CandidateProperties == {<<>>, <<" ">>, <<"p">>, <<" ", "p", " ">>, <<"q">>}
StoredProperties == {<<"p">>, <<" ", "p">>, <<"q">>}
CandidateTypes == {"", "wordCount", "headingLevelCount"}

ParameterAlphabet == {"2", "7", ".", "-", " ", "a"}

ParameterStrings == UNION {[1..n -> ParameterAlphabet] : n \in 0..MaxParamLen}

Parameters ==
    {Undefined, Num(0 - 1), Num(0), Num(1), Num(6), Num(7),
     NumAndHalf(0), NumAndHalf(2), NumAndHalf(6)}
    \cup {Str(chars) : chars \in ParameterStrings}

Candidates ==
    {Config(id, type, property, TRUE, parameter) :
        id \in {1, MaxExisting + 1}, type \in CandidateTypes,
        property \in CandidateProperties, parameter \in Parameters}

StoredConfigs ==
    {Config(id, "wordCount", property, TRUE, Undefined) :
        id \in 1..MaxExisting, property \in StoredProperties}

\* lists of stored configurations with different ids
ExistingLists ==
    UNION {{l \in [1..k -> StoredConfigs] :
                \A i, j \in 1..k : i # j => l[i].id # l[j].id} : k \in 0..MaxExisting}

InitValidate ==
    /\ text \in [config : Candidates, existingConfigs : ExistingLists]
    /\ fn = "input"
    /\ result = <<>>
    /\ calculations = <<>>
    /\ renderer = "source"
    /\ readable = [f \in Files |-> FALSE]
    /\ frontmatter = [f \in Files |-> NoFrontmatter]
    /\ bodyText = [f \in Files |-> <<>>]
    /\ metadataCache = [f \in Files |-> NullCache]
    /\ pass = IdlePass
    /\ timers = NoTimers
    /\ passes = NoPasses
    /\ batch = IdleBatch
    /\ notices = <<>>

ApplyValidateCounterConfig ==
    /\ fn = "input"
    /\ fn' = "validateCounterConfig"
    /\ result' = validateCounterConfig(text.config, text.existingConfigs)
    /\ UNCHANGED <<text, engineVars, schedVars>>

NextValidate == ApplyValidateCounterConfig

SpecValidate == InitValidate /\ [][NextValidate]_vars

----------------------------------------------------------------------------
(* SpecSettings: settings.calculations under the settings tab and the import.
   Property names are strings of characters here, as validateCounterConfig
   trims them; fn is the last operation, result what it answered. *)

FormTypes == {"wordCount", "headingLevelCount"}

\* what the form holds for the parameter: the slider of the heading level for
\* headingLevelCount, nothing for a type without parameter
FormParameters(type) ==
    IF type = "headingLevelCount" THEN {Num(1), Num(MaxHeadingLevel)} ELSE {Undefined}

\* generateCounterId: an id no configuration has (the least one, for the ids
\* to stay within bounds)
generateCounterId(configs) ==
    LET used == {configs[i].id : i \in 1..Len(configs)}
    IN  CHOOSE id \in 1..(Len(configs) + 1) :
            id \notin used /\ \A other \in 1..(id - 1) : other \in used

\* calculations.splice(index, 1)
Splice(arr, index) == SubSeq(arr, 1, index) \o SubSeq(arr, index + 2, Len(arr))

Settled(name, answer, notice) ==
    /\ fn' = name
    /\ result' = answer
    /\ notices' = <<Notice(notice, 0, 0)>>

\* the button 'Add Calculation'
AddNewCalculation(selectedType, propertyName, parameter) ==
    /\ Len(calculations) < MaxConfigs
    /\ LET newConfig == Config(generateCounterId(calculations), selectedType,
                               Trim(propertyName), TRUE, parameter)
           validation == validateCounterConfig(newConfig, calculations)
       IN  IF selectedType = ""
           THEN /\ Settled("addNewCalculation", TypeRequired, "Please select a counter type")
                /\ UNCHANGED calculations
           ELSE IF Trim(propertyName) = <<>>
           THEN /\ Settled("addNewCalculation", PropertyRequired, "Please enter a property name")
                /\ UNCHANGED calculations
           ELSE IF validation.error
           THEN /\ Settled("addNewCalculation", validation, validation.message)
                /\ UNCHANGED calculations
           ELSE /\ Settled("addNewCalculation", NoError, "Added calculation")
                /\ calculations' = Append(calculations, newConfig)
    /\ UNCHANGED <<text, schedVars, renderer, readable, frontmatter, bodyText, metadataCache,
                   pass, batch>>

\* 'Save' of the edit modal opened on calculations[index]
SaveCalculation(index, type, property, enabled, parameter) ==
    /\ index \in 0..(Len(calculations) - 1)
    /\ LET config == calculations[index + 1]
           updated == [config EXCEPT !.type = type, !.property = Trim(property),
                                     !.enabled = enabled, !.parameter = parameter]
           validation == validateCounterConfig(updated, calculations)
       IN  IF validation.error
           THEN /\ Settled("saveCalculation", validation, validation.message)
                /\ UNCHANGED calculations
           ELSE /\ Settled("saveCalculation", NoError, "Calculation updated")
                /\ calculations' = [calculations EXCEPT ![index + 1] = updated]
    /\ UNCHANGED <<text, schedVars, renderer, readable, frontmatter, bodyText, metadataCache,
                   pass, batch>>

\* the toggle of calculations[index]: config.enabled = value
ToggleCalculation(index, value) ==
    /\ index \in 0..(Len(calculations) - 1)
    /\ calculations' = [calculations EXCEPT ![index + 1].enabled = value]
    /\ fn' = "toggleCalculation"
    /\ result' = NoError
    /\ UNCHANGED <<text, schedVars, renderer, readable, frontmatter, bodyText, metadataCache,
                   pass, batch, notices>>

\* 'Delete' of calculations[index], confirmed
DeleteCalculation(index) ==
    /\ index \in 0..(Len(calculations) - 1)
    /\ calculations' = Splice(calculations, index)
    /\ Settled("deleteCalculation", NoError, "Deleted calculation")
    /\ UNCHANGED <<text, schedVars, renderer, readable, frontmatter, bodyText, metadataCache,
                   pass, batch>>

\* every calculation has an id, a type, a property and a boolean enabled
validateImportedSettings(imported) ==
    \A i \in 1..Len(imported) :
        imported[i].type # "" /\ imported[i].property # <<>>

\* importSettings for a JSON text whose calculations are imported
ImportSettings(imported) ==
    /\ IF validateImportedSettings(imported)
       THEN /\ calculations' = imported
            /\ Settled("importSettings", NoError, "Settings imported successfully")
       ELSE /\ UNCHANGED calculations
            /\ Settled("importSettings", Error("Invalid settings format"),
                       "Failed to import settings")
    /\ UNCHANGED <<text, schedVars, renderer, readable, frontmatter, bodyText, metadataCache,
                   pass, batch>>

\* the configurations a settings file may hold
\* the configurations a settings file may hold, the i-th with id i
ImportedConfigs ==
    {Config(id, type, property, TRUE, Undefined) :
        id \in 1..MaxConfigs, type \in {"", "wordCount"},
        property \in {<<"p">>, <<" ", "p">>, <<"q">>}}

ImportedLists ==
    UNION {{l \in [1..k -> ImportedConfigs] : \A i \in 1..k : l[i].id = i} :
                k \in 0..MaxConfigs}

InitSettings ==
    /\ calculations = <<>>
    /\ fn = "loadSettings"
    /\ result = NoError
    /\ text = <<>>
    /\ renderer = "source"
    /\ readable = [f \in Files |-> FALSE]
    /\ frontmatter = [f \in Files |-> NoFrontmatter]
    /\ bodyText = [f \in Files |-> <<>>]
    /\ metadataCache = [f \in Files |-> NullCache]
    /\ pass = IdlePass
    /\ timers = NoTimers
    /\ passes = NoPasses
    /\ batch = IdleBatch
    /\ notices = <<>>

NextSettings ==
    \/ \E type \in FormTypes \cup {""}, property \in CandidateProperties :
        \E parameter \in FormParameters(type) :
            AddNewCalculation(type, property, parameter)
    \/ \E index \in 0..(MaxConfigs - 1), type \in FormTypes,
          property \in CandidateProperties, enabled \in BOOLEAN :
        \E parameter \in FormParameters(type) :
            SaveCalculation(index, type, property, enabled, parameter)
    \/ \E index \in 0..(MaxConfigs - 1), value \in BOOLEAN : ToggleCalculation(index, value)
    \/ \E index \in 0..(MaxConfigs - 1) : DeleteCalculation(index)
    \/ \E imported \in ImportedLists : ImportSettings(imported)

SpecSettings == InitSettings /\ [][NextSettings]_vars

----------------------------------------------------------------------------
(* SpecProgress: the loop of calculateAllFiles over a vault of up to MaxTotal
   files, each call returning or throwing *)

InitProgress ==
    /\ \E total \in 1..MaxTotal :
        /\ batch = [IdleBatch EXCEPT !.pc = "loop", !.total = total]
        /\ notices = <<Notice("Starting batch calculation", total, 0)>>
    /\ calculations = <<>>
    /\ renderer = "source"
    /\ readable = [f \in Files |-> FALSE]
    /\ frontmatter = [f \in Files |-> NoFrontmatter]
    /\ bodyText = [f \in Files |-> <<>>]
    /\ metadataCache = [f \in Files |-> NullCache]
    /\ pass = IdlePass
    /\ timers = NoTimers
    /\ passes = NoPasses
    /\ text = <<>>
    /\ fn = "calculateAllFiles"
    /\ result = <<>>

\* one turn of the loop: the call for the next file, and what follows it
CalculateAllFilesTurn(returned) ==
    /\ batch.pc = "loop"
    /\ batch' = [AfterFile(batch, returned) EXCEPT
                    !.attempted = Append(batch.attempted, batch.index + 1)]
    /\ notices' = notices \o ProgressNotices(batch, returned)
                          \o SummaryNotices(batch, returned)
    /\ UNCHANGED <<calculations, renderer, readable, frontmatter, bodyText,
                   metadataCache, pass, textVars, schedVars>>

NextProgress == \E returned \in BOOLEAN : CalculateAllFilesTurn(returned)

SpecProgress == InitProgress /\ [][NextProgress]_vars

----------------------------------------------------------------------------
(* SpecConcurrent: the invocations overlap at their awaits. A command or a
   timer starts its invocation whatever else is awaiting: neither main.ts nor
   counter.ts holds a lock, and the 'modify' handler sets a new timer for
   every event. settings.autoCalculate is on. Each invocation in flight takes
   one of MaxPasses slots. The notices are shown and gone, nothing reads them
   back: they are not recorded here. *)

\* the slots taken
InFlight == {slot \in 1..MaxPasses : passes[slot].pc # "idle"}

HasFreeSlot == InFlight # 1..MaxPasses

\* the slot a new invocation takes: the first one free
FreeSlot == CHOOSE slot \in 1..MaxPasses :
                /\ slot \notin InFlight
                /\ \A before \in 1..(slot - 1) : before \in InFlight

\* vault.on('modify') for the markdown file f: setTimeout(..., 500)
Modify(f) ==
    /\ timers[f] < MaxTimers
    /\ timers' = [timers EXCEPT ![f] = @ + 1]
    /\ UNCHANGED <<textVars, calculations, readable, frontmatter, bodyText,
                   metadataCache, renderer, pass, batch, notices, passes>>

\* a timer of f fires: calculateFileStatsFromCache up to its first await
TimerFires(f) ==
    /\ timers[f] > 0
    /\ HasFreeSlot
    /\ timers' = [timers EXCEPT ![f] = @ - 1]
    /\ passes' = [passes EXCEPT ![FreeSlot] = CalculateFileStatsFromCacheStart(f)]
    /\ UNCHANGED <<textVars, calculations, readable, frontmatter, bodyText,
                   metadataCache, renderer, pass, batch, notices>>

\* the command 'Calculate Statistics for Current Note' while others await
StartCalculationCommand(f) ==
    /\ HasFreeSlot
    /\ EnabledOf(calculations) # <<>>
    /\ passes' = [passes EXCEPT ![FreeSlot] = CalculateFileStatsCall(f, "command")]
    /\ UNCHANGED <<textVars, calculations, readable, frontmatter, bodyText,
                   metadataCache, renderer, pass, batch, notices, timers>>

\* the command 'Calculate Statistics for All Notes' while others await
StartBatchCalculationCommand ==
    /\ batch.pc = "idle"
    /\ EnabledOf(calculations) # <<>>
    /\ batch' = [IdleBatch EXCEPT !.pc = "loop", !.total = NumFiles,
                                  !.enabledConfigs = EnabledOf(calculations)]
    /\ UNCHANGED <<textVars, calculations, readable, frontmatter, bodyText,
                   metadataCache, renderer, pass, notices, timers, passes>>

\* for (const file of files): await calculateFileStats(file, counterConfigs)
BatchNextFile ==
    /\ batch.pc = "loop"
    /\ HasFreeSlot
    /\ passes' = [passes EXCEPT ![FreeSlot] = CalculateFileStatsCall(batch.index + 1, "batch")]
    /\ batch' = AwaitingCall(batch)
    /\ UNCHANGED <<textVars, calculations, readable, frontmatter, bodyText,
                   metadataCache, renderer, pass, notices, timers>>

\* the content read of an invocation is over
AfterRead(p) ==
    IF readable[p.file]
    THEN [p EXCEPT
            !.stats = calculateBaseStats(
                getFileBody(ContentOf(p.file), metadataCache[p.file]), renderer),
            !.pc = "configs"]
    ELSE [p EXCEPT !.pc = "threw"]

\* await getFileBody, await calculateBaseStats of the invocation in the slot
SlotRead(slot) ==
    /\ passes[slot].pc = "read"
    /\ passes' = [passes EXCEPT ![slot] = AfterRead(@)]
    /\ UNCHANGED <<textVars, calculations, readable, frontmatter, bodyText,
                   metadataCache, renderer, pass, batch, notices, timers>>

\* one turn of the loop of the invocation in the slot
SlotTurn(slot) ==
    /\ passes[slot].pc = "configs"
    /\ LET p == passes[slot]
           config == p.enabledConfigs[p.index + 1]
           count == getCountForType(config.type, p.stats, config.parameter)
       IN  IF ~count.ok
           THEN /\ passes' = [passes EXCEPT ![slot] = ConfigFailed(p, "projection failed")]
                /\ UNCHANGED <<frontmatter, metadataCache>>
           ELSE \E written \in BOOLEAN :
                IF written
                THEN /\ WriteProperty(p.file, config.property, count.value)
                     /\ passes' = [passes EXCEPT ![slot] =
                                        ConfigWritten(p, config.property, count.value)]
                ELSE /\ passes' = [passes EXCEPT ![slot] = ConfigFailed(p, "write failed")]
                          /\ UNCHANGED <<frontmatter, metadataCache>>
    /\ UNCHANGED <<textVars, calculations, readable, bodyText, renderer, pass,
                   batch, notices>>

\* the turn, with no event of the host following the write
SlotConfig(slot) == SlotTurn(slot) /\ UNCHANGED timers

\* the command, or the timer callback, has its results or the error
SlotDone(slot) ==
    /\ passes[slot].caller \in {"command", "modify"}
    /\ passes[slot].pc \in {"returned", "threw"}
    /\ passes' = [passes EXCEPT ![slot] = IdlePass]
    /\ UNCHANGED <<textVars, calculations, readable, frontmatter, bodyText,
                   metadataCache, renderer, pass, batch, notices, timers>>

\* the call of the loop is over; after the last file, the summary
BatchAfterFile(slot) ==
    /\ batch.pc = "awaiting"
    /\ passes[slot].caller = "batch"
    /\ passes[slot].pc \in {"returned", "threw"}
    /\ batch' = AfterFile(batch, passes[slot].pc = "returned")
    /\ passes' = [passes EXCEPT ![slot] = IdlePass]
    /\ UNCHANGED <<textVars, calculations, readable, frontmatter, bodyText,
                   metadataCache, renderer, pass, notices, timers>>

\* calculateAllFiles has returned to the command
BatchDone ==
    /\ batch.pc = "returned"
    /\ batch' = IdleBatch
    /\ UNCHANGED <<textVars, calculations, readable, frontmatter, bodyText,
                   metadataCache, renderer, pass, notices, timers, passes>>

\* the settings of SpecConcurrent: one configuration that needs the content,
\* or one the host's index answers
ConcurrentLists ==
    {<<Config(1, "wordCount", "p", TRUE, Undefined)>>,
     <<Config(2, "headingLevelCount", "q", TRUE, Num(1))>>}

\* the vault of SpecConcurrent: notes, the last one deleted or not
ConcurrentVaults ==
    {kinds \in [Files -> {"note", "deleted"}] :
        \A f \in Files : kinds[f] = "deleted" => f = NumFiles}

InitConcurrent ==
    /\ calculations \in ConcurrentLists
    /\ renderer = "source"
    /\ \E kinds \in ConcurrentVaults :
        /\ readable = [f \in Files |-> kinds[f] # "deleted"]
        /\ frontmatter = [f \in Files |-> FrontmatterOfKind(kinds[f])]
        /\ bodyText = [f \in Files |-> BodyOfKind(kinds[f])]
        /\ metadataCache = [f \in Files |-> CacheOfKind(kinds[f])]
    /\ pass = IdlePass
    /\ timers = NoTimers
    /\ passes = NoPasses
    /\ batch = IdleBatch
    /\ notices = <<>>
    /\ text = <<>>
    /\ fn = "input"
    /\ result = <<>>

NextConcurrent ==
    \/ \E f \in Files : Modify(f)
    \/ \E f \in Files : TimerFires(f)
    \/ \E f \in Files : StartCalculationCommand(f)
    \/ StartBatchCalculationCommand
    \/ BatchNextFile
    \/ \E slot \in 1..MaxPasses : SlotRead(slot)
    \/ \E slot \in 1..MaxPasses : SlotConfig(slot)
    \/ \E slot \in 1..MaxPasses : SlotDone(slot)
    \/ \E slot \in 1..MaxPasses : BatchAfterFile(slot)
    \/ BatchDone

SpecConcurrent == InitConcurrent /\ [][NextConcurrent]_vars

----------------------------------------------------------------------------
(* SpecEdit: the batch while the settings tab is open. calculateAllFiles is
   handed settings.calculations itself, the array the toggle, the edit and the
   delete of the settings tab change in place. *)

\* the lists of SpecEdit: word count, a heading level, a disabled line count
EditLists ==
    {l \in ConfigLists(MaxConfigs) : \A i \in 1..Len(l) : l[i].id \in {1, 2, 7}}

InitEdit ==
    /\ calculations \in EditLists
    /\ renderer = "source"
    /\ \E kinds \in ConcurrentVaults :
        /\ readable = [f \in Files |-> kinds[f] # "deleted"]
        /\ frontmatter = [f \in Files |-> FrontmatterOfKind(kinds[f])]
        /\ bodyText = [f \in Files |-> BodyOfKind(kinds[f])]
        /\ metadataCache = [f \in Files |-> CacheOfKind(kinds[f])]
    /\ pass = IdlePass
    /\ timers = NoTimers
    /\ passes = NoPasses
    /\ batch = IdleBatch
    /\ notices = <<>>
    /\ text = <<>>
    /\ fn = "input"
    /\ result = <<>>

NextEdit ==
    \/ RunBatchCalculationCommand /\ UNCHANGED <<textVars, schedVars>>
    \/ CalculateAllFilesNextFile /\ UNCHANGED <<textVars, schedVars>>
    \/ CalculateFileStatsRead /\ UNCHANGED <<textVars, schedVars>>
    \/ CalculateFileStatsConfig /\ UNCHANGED <<textVars, schedVars>>
    \/ CalculateAllFilesAfterFile /\ UNCHANGED <<textVars, schedVars>>
    \/ RunBatchCalculationCommandDone /\ UNCHANGED <<textVars, schedVars>>
    \/ \E index \in 0..(MaxConfigs - 1), value \in BOOLEAN : ToggleCalculation(index, value)
    \/ \E index \in 0..(MaxConfigs - 1) : DeleteCalculation(index)

SpecEdit == InitEdit /\ [][NextEdit]_vars

----------------------------------------------------------------------------
(* SpecIndex: the host indexes a file some time after processFrontMatter has
   changed it. Until then getFileCache answers with the span of the front
   matter the file had before the write. *)

\* the lines of the front matter the index was built from
IndexedLineCount(cache) ==
    IF FrontmatterPositionOf(cache) = NoSpan THEN 0
    ELSE FrontmatterPositionOf(cache).end + 1

\* the index of the file as it stands now
Refreshed(cache, fm) ==
    IF cache = NullCache THEN NullCache
    ELSE [frontmatterPosition |-> FrontmatterSpan(fm),
          headings |-> [i \in 1..Len(cache.headings) |->
                [cache.headings[i] EXCEPT !.line =
                    @ + FrontmatterLineCount(fm) - IndexedLineCount(cache)]]]

\* the index of f is behind the file
Stale(f) == metadataCache[f] # Refreshed(metadataCache[f], frontmatter[f])

\* the host has parsed the file again: metadataCache 'changed'
MetadataCacheChanged(f) ==
    /\ Stale(f)
    /\ metadataCache' = [metadataCache EXCEPT ![f] = Refreshed(@, frontmatter[f])]
    /\ UNCHANGED <<textVars, schedVars, calculations, readable, frontmatter, bodyText,
                   renderer, pass, batch, notices>>

\* one turn of the loop of calculateFileStats; await updateFileProperty
\* resolves when the file is written, the index follows later
CalculateFileStatsConfigUnindexed ==
    /\ pass.op = "calculateFileStats"
    /\ pass.pc = "configs"
    /\ LET config == pass.enabledConfigs[pass.index + 1]
           count == getCountForType(config.type, pass.stats, config.parameter)
       IN  IF ~count.ok
           THEN /\ pass' = ConfigFailed(pass, "projection failed")
                /\ notices' = Append(notices, Notice("Error calculating", config.id, 0))
                /\ UNCHANGED frontmatter
           ELSE \E written \in BOOLEAN :
                IF written
                THEN /\ frontmatter' = [frontmatter EXCEPT ![pass.file] =
                            updateFileProperty(@, config.property, count.value)]
                     /\ pass' = ConfigWritten(pass, config.property, count.value)
                     /\ UNCHANGED notices
                ELSE /\ pass' = ConfigFailed(pass, "write failed")
                     /\ notices' = Append(notices, Notice("Error calculating", config.id, 0))
                     /\ UNCHANGED frontmatter
    /\ UNCHANGED <<textVars, schedVars, calculations, readable, bodyText, metadataCache,
                   renderer, batch>>

\* a word count, a line count
IndexLists ==
    {<<Config(1, "wordCount", "p", TRUE, Undefined)>>,
     <<Config(8, "lineCount", "q", TRUE, Undefined)>>,
     <<Config(1, "wordCount", "p", TRUE, Undefined),
       Config(8, "lineCount", "q", TRUE, Undefined)>>}

InitIndex ==
    /\ calculations \in IndexLists
    /\ renderer = "source"
    /\ \E kinds \in [Files -> {"note", "properties"}] :
        /\ readable = [f \in Files |-> TRUE]
        /\ frontmatter = [f \in Files |-> FrontmatterOfKind(kinds[f])]
        /\ bodyText = [f \in Files |-> BodyOfKind(kinds[f])]
        /\ metadataCache = [f \in Files |-> CacheOfKind(kinds[f])]
    /\ pass = IdlePass
    /\ timers = NoTimers
    /\ passes = NoPasses
    /\ batch = IdleBatch
    /\ notices = <<>>
    /\ text = <<>>
    /\ fn = "input"
    /\ result = <<>>

NextIndex ==
    \/ \E f \in Files : RunCalculationCommand(f) /\ UNCHANGED <<textVars, schedVars>>
    \/ CalculateFileStatsRead /\ UNCHANGED <<textVars, schedVars>>
    \/ CalculateFileStatsConfigUnindexed
    \/ RunCalculationCommandDone /\ UNCHANGED <<textVars, schedVars>>
    \/ \E f \in Files : MetadataCacheChanged(f)

SpecIndex == InitIndex /\ [][NextIndex]_vars

----------------------------------------------------------------------------
(* SpecFeedback: autoCalculate is on and the host emits 'modify' for every
   write of processFrontMatter. One file has been modified from outside;
   nothing else is, and no command runs. A file has MaxTimers timers pending
   at most: an event beyond that is not recorded. *)

\* the turn of the invocation in the slot; the write is followed by the
\* 'modify' event of the file, whose handler sets a timer
SlotConfigNotified(slot) ==
    /\ SlotTurn(slot)
    /\ timers' =
        IF passes'[slot].outcomes[Len(passes'[slot].outcomes)] = "written"
        THEN [timers EXCEPT ![passes[slot].file] = Min2(@ + 1, MaxTimers)]
        ELSE timers

InitFeedback ==
    /\ calculations \in ConfigLists(1)
    /\ renderer = "source"
    /\ \E kinds \in ConcurrentVaults :
        /\ readable = [f \in Files |-> kinds[f] # "deleted"]
        /\ frontmatter = [f \in Files |-> FrontmatterOfKind(kinds[f])]
        /\ bodyText = [f \in Files |-> BodyOfKind(kinds[f])]
        /\ metadataCache = [f \in Files |-> CacheOfKind(kinds[f])]
    /\ pass = IdlePass
    /\ \E modified \in Files : timers = [NoTimers EXCEPT ![modified] = 1]
    /\ passes = NoPasses
    /\ batch = IdleBatch
    /\ notices = <<>>
    /\ text = <<>>
    /\ fn = "input"
    /\ result = <<>>

NextFeedback ==
    \/ \E f \in Files : TimerFires(f)
    \/ \E slot \in 1..MaxPasses : SlotRead(slot)
    \/ \E slot \in 1..MaxPasses : SlotConfigNotified(slot)
    \/ \E slot \in 1..MaxPasses : SlotDone(slot)

\* every timer fires, every await resolves, every callback runs on; for the
\* read this is: no invocation stays at its read for ever
SpecFeedback ==
    /\ InitFeedback
    /\ [][NextFeedback]_vars
    /\ WF_vars(\E f \in Files : TimerFires(f))
    /\ \A slot \in 1..MaxPasses : []<>(passes[slot].pc # "read")
    /\ WF_vars(\E slot \in 1..MaxPasses : SlotConfigNotified(slot))
    /\ WF_vars(\E slot \in 1..MaxPasses : SlotDone(slot))

----------------------------------------------------------------------------
(* SpecNotifier: the batch with a notifier that may raise. 'new Notice(...)'
   is a call into the host; where it raises, the notice is not shown and the
   error goes to the nearest enclosing catch. The vault and the settings are
   those of SpecEdit. *)

\* the error of a turn is in the catch inside the loop, whose Notice raises:
\* the error leaves the loop for the outer catch, which throws (with its own
\* notice or with the error of that notice)
NoticeRaisedInCatch(p, outcome) ==
    [p EXCEPT !.pc = "threw", !.outcomes = Append(p.outcomes, outcome)]

\* 'Starting batch calculation' raises, outside any try of calculateAllFiles
StartNoticeRaises ==
    /\ Idle
    /\ EnabledOf(calculations) # <<>>
    /\ batch' = [IdleBatch EXCEPT !.pc = "threw", !.total = NumFiles,
                                  !.enabledConfigs = EnabledOf(calculations)]
    /\ notices' = <<>>
    /\ UNCHANGED <<textVars, schedVars, calculations, readable, frontmatter, bodyText,
                   metadataCache, renderer, pass>>

\* a turn of calculateFileStats fails, by its projection or by its write, and
\* 'Error calculating' raises
ConfigNoticeRaises ==
    /\ pass.op = "calculateFileStats"
    /\ pass.pc = "configs"
    /\ LET config == pass.enabledConfigs[pass.index + 1]
           count == getCountForType(config.type, pass.stats, config.parameter)
       IN  pass' = NoticeRaisedInCatch(pass,
                        IF count.ok THEN "write failed" ELSE "projection failed")
    /\ UNCHANGED <<textVars, schedVars, calculations, readable, frontmatter, bodyText,
                   metadataCache, renderer, batch, notices>>

\* the call for the last file is over and 'Batch calculation completed' raises
SummaryNoticeRaises ==
    /\ batch.pc = "awaiting"
    /\ pass.caller = "batch"
    /\ pass.pc \in {"returned", "threw"}
    /\ AfterFile(batch, pass.pc = "returned").pc = "returned"
    /\ batch' = [AfterFile(batch, pass.pc = "returned") EXCEPT !.pc = "threw"]
    /\ pass' = IdlePass
    /\ UNCHANGED <<textVars, schedVars, calculations, readable, frontmatter, bodyText,
                   metadataCache, renderer, notices>>

\* calculateAllFiles has thrown to the command, which shows 'Batch
\* calculation failed' if the notifier lets it
RunBatchCalculationCommandFailed ==
    /\ batch.pc = "threw"
    /\ batch' = IdleBatch
    /\ \E raised \in BOOLEAN :
        notices' = IF raised THEN notices
                   ELSE Append(notices, Notice("Batch calculation failed", 0, 0))
    /\ UNCHANGED <<textVars, schedVars, calculations, readable, frontmatter, bodyText,
                   metadataCache, renderer, pass>>

NextNotifier ==
    \/ RunBatchCalculationCommand /\ UNCHANGED <<textVars, schedVars>>
    \/ StartNoticeRaises
    \/ CalculateAllFilesNextFile /\ UNCHANGED <<textVars, schedVars>>
    \/ CalculateFileStatsRead /\ UNCHANGED <<textVars, schedVars>>
    \/ CalculateFileStatsConfig /\ UNCHANGED <<textVars, schedVars>>
    \/ ConfigNoticeRaises
    \/ CalculateAllFilesAfterFile /\ UNCHANGED <<textVars, schedVars>>
    \/ SummaryNoticeRaises
    \/ RunBatchCalculationCommandDone /\ UNCHANGED <<textVars, schedVars>>
    \/ RunBatchCalculationCommandFailed

SpecNotifier == InitEdit /\ [][NextNotifier]_vars

----------------------------------------------------------------------------
(* Properties of the pure functions, checked under SpecText *)

\* s holds a CR+LF line terminator
HasCRLF(s) == \E i \in 1..(Len(s) - 1) : s[i] = CR /\ s[i + 1] = LF

\* the elements of arr whose 0-based index is in kept, in order
RECURSIVE KeptFrom(_, _, _)
KeptFrom(arr, index, kept) ==
    IF index >= Len(arr) THEN <<>>
    ELSE (IF index \in kept THEN <<arr[index + 1]>> ELSE <<>>)
         \o KeptFrom(arr, index + 1, kept)

\* the state is the return of getFileBody for a cache with a front-matter span
\* that lies within the content: 0 <= start.line <= end.line < number of lines
GetFileBodyWithinSpan ==
    /\ fn = "getFileBody"
    /\ FrontmatterPositionOf(result.cache) # NoSpan
    /\ FrontmatterPositionOf(result.cache).start <= FrontmatterPositionOf(result.cache).end
    /\ FrontmatterPositionOf(result.cache).end < countLines(text)

\* C3: when the metadata index supplies no front-matter span (no cache at all,
\* or a cache without frontmatterPosition), getFileBody returns the content
\* unchanged, character for character, its CR+LF terminators included.
C3_NoSpanIsIdentity ==
    (fn = "getFileBody" /\ FrontmatterPositionOf(result.cache) = NoSpan)
        => result.body = text

C3_Witness ==
    /\ fn = "getFileBody"
    /\ result.cache = NullCache
    /\ HasCRLF(text)
    /\ result.body = text

\* C4, first part: for a span within the content the body is the lines before
\* start.line followed by the lines after end.line, joined with one LF; with
\* start.line = 0 it is the suffix alone.
C4_BodyIsPrefixThenSuffix ==
    GetFileBodyWithinSpan =>
        LET fmPos == FrontmatterPositionOf(result.cache)
            lines == SplitLines(text)
            outside == {i \in 0..(Len(lines) - 1) : i < fmPos.start \/ i > fmPos.end}
            after == {i \in 0..(Len(lines) - 1) : i > fmPos.end}
        IN  /\ result.body = JoinLines(KeptFrom(lines, 0, outside))
            /\ fmPos.start = 0 => result.body = JoinLines(KeptFrom(lines, 0, after))

\* C4 as stated: the above, and the body has (end.line - start.line + 1) fewer
\* lines than the content.
C4_AsStated ==
    GetFileBodyWithinSpan =>
        LET fmPos == FrontmatterPositionOf(result.cache)
        IN  /\ C4_BodyIsPrefixThenSuffix
            /\ countLines(result.body) = countLines(text) - (fmPos.end - fmPos.start + 1)

\* C4 as amended: the above, and the body has (end.line - start.line + 1) fewer
\* lines than the content unless the body is the empty string, which has 0
\* lines although one (empty) line may be left.
C4_Amended ==
    GetFileBodyWithinSpan =>
        LET fmPos == FrontmatterPositionOf(result.cache)
            left == countLines(text) - (fmPos.end - fmPos.start + 1)
        IN  /\ C4_BodyIsPrefixThenSuffix
            /\ result.body # <<>> => countLines(result.body) = left
            /\ result.body = <<>> => countLines(result.body) = 0 /\ left \in {0, 1}

\* a front-matter block of three lines at the top is cut from a five-line content
C4_Witness ==
    /\ GetFileBodyWithinSpan
    /\ FrontmatterPositionOf(result.cache) = Span(0, 2)
    /\ countLines(text) = 5
    /\ countLines(result.body) = 2

\* the characters the claim calls letters, digits, underscore
ClaimAsciiLetters == {"a", "b", "c", "d", "p", "q", "r", "t"}
ClaimLetters == ClaimAsciiLetters \cup {NonAsciiLetter}
ClaimDigits == {"0", "1", "2", "3", "4", "5", "6", "7", "8", "9"}

\* number of maximal runs of characters of class in s
MaximalRuns(s, class) ==
    Cardinality({i \in 1..Len(s) :
        s[i] \in class /\ (i = 1 \/ s[i - 1] \notin class)})

\* C6 as stated: countWords(s) is the number of maximal runs of letters, digits
\* and underscores.
C6_AsStated ==
    fn = "countWords" =>
        result = MaximalRuns(text, ClaimLetters \cup ClaimDigits \cup {"_"})

\* C6 as amended: countWords(s) is the number of maximal runs of ASCII letters,
\* digits and underscores; every other character, a non-ASCII letter too,
\* separates words.  So it is 0 for the empty string and for punctuation and
\* whitespace alone, and a hyphen between two runs makes them two words.
C6_Amended ==
    fn = "countWords" =>
        /\ result = MaximalRuns(text, ClaimAsciiLetters \cup ClaimDigits \cup {"_"})
        /\ (\A i \in 1..Len(text) : text[i] \in {"-", HASH} \cup WhiteSpace) => result = 0

C6_Witness ==
    /\ fn = "countWords"
    /\ text = <<"a", "-", "a", "_">>
    /\ result = 2

\* number of line terminators of s: every LF, with or without a CR before it
LineTerminators(s) == Cardinality({i \in 1..Len(s) : s[i] = LF})

\* C7: countLines(s) is 0 for the empty string and otherwise the number of line
\* terminators (LF or CR+LF, each once) plus 1: at least 1, and a terminator at
\* the end counts the empty line after it.
C7_LinesIsTerminatorsPlusOne ==
    fn = "countLines" =>
        /\ text = <<>> => result = 0
        /\ text # <<>> => result = LineTerminators(text) + 1 /\ result >= 1
        /\ (Len(text) >= 2 /\ text[Len(text)] = LF /\ text[Len(text) - 1] \notin {CR, LF})
            => result = countLines(SubSeq(text, 1, Len(text) - 1)) + 1

C7_Witness ==
    /\ fn = "countLines"
    /\ text = <<"a", CR, LF>>
    /\ result = 2

\* C8: countCharactersWithSpaces(s) >= countCharactersWithoutSpaces(s), and
\* the difference is the number of whitespace characters of s.
C8_DifferenceIsWhitespace ==
    fn = "countCharactersWithoutSpaces" =>
        /\ countCharactersWithSpaces(text) >= result
        /\ countCharactersWithSpaces(text) - result
            = Cardinality({i \in 1..Len(text) : text[i] \in {" ", "\t", LF, CR}})

C8_Witness ==
    /\ fn = "countCharactersWithoutSpaces"
    /\ text = <<"a", " ", LF, "a">>
    /\ result = 2

\* the line begins with 1 to 6 '#', then at least one whitespace character,
\* then non-empty trailing content
ClaimHeadingLine(line) ==
    LET h == LeadingHashes(line)
    IN  /\ h \in 1..6
        /\ Len(line) >= h + 2
        /\ line[h + 1] \in {" ", "\t", LF, CR}

\* a carriage return left in the line after the '#' lies within the whitespace
\* run that follows them and is not the last character of the line
NoStrayCR(line) ==
    LET h == LeadingHashes(line)
    IN  \A k \in (h + 1)..Len(line) :
            line[k] = CR =>
                /\ k < Len(line)
                /\ \A j \in (h + 1)..k : line[j] \in {" ", "\t", LF, CR}

\* the recorded headings are those of the lines that satisfy IsHeading, in
\* order, each with its number of leading '#' and its 1-based line number
RecordsExactly(headings, lines, IsHeading(_)) ==
    /\ {headings[k].line : k \in 1..Len(headings)}
        = {i \in 1..Len(lines) : IsHeading(lines[i])}
    /\ \A k \in 1..Len(headings) :
        /\ headings[k].level = LeadingHashes(lines[headings[k].line])
        /\ \A j \in 1..(k - 1) : headings[j].line < headings[k].line

\* C9 as stated: a line is recorded exactly when it begins with 1 to 6 '#',
\* then whitespace, then non-empty content.
C9_AsStated ==
    fn = "extractHeadings" =>
        RecordsExactly(result, SplitLines(text), ClaimHeadingLine)

\* C9 as amended: ... exactly when it begins with 1 to 6 '#', then whitespace,
\* then non-empty content, and a carriage return left in the line occurs only
\* within the whitespace that follows the '#' and not at the end of the line.
\* Lines with more than 6 '#' or no whitespace after them are never recorded.
C9_Amended ==
    fn = "extractHeadings" =>
        LET lines == SplitLines(text)
            Amended(line) == ClaimHeadingLine(line) /\ NoStrayCR(line)
        IN  /\ RecordsExactly(result, lines, Amended)
            /\ \A k \in 1..Len(result) :
                LET line == lines[result[k].line]
                IN  /\ LeadingHashes(line) <= 6
                    /\ line[LeadingHashes(line) + 1] \in {" ", "\t", LF, CR}

\* a heading of level 1 on line 1 is recorded, the line of seven '#' after it is not
C9_Witness ==
    /\ fn = "extractHeadings"
    /\ text = <<HASH, " ", "b", LF>> \o Hashes(7) \o <<" ", "b">>
    /\ result = <<[level |-> 1, heading |-> <<"b">>, line |-> 1]>>

\* what a renderer may give for the input: nothing, other text, more lines,
\* the text itself, the text without its heading markers
CleanTexts ==
    {<<>>, <<"a">>, <<"a", " ", "b", LF, "c", LF, HASH, " ", "d">>,
     text, Render("visible", text)}

C25_AsStated ==
    fn = "extractHeadings" =>
        \A i \in 1..Len(result) : result[i].heading # <<>>

----------------------------------------------------------------------------
(* Properties of validateCounterConfig, checked under SpecValidate *)

Validated == fn = "validateCounterConfig"

\* nothing is left of the property once the white space around it is dropped
TrimmedEmpty(property) == \A i \in 1..Len(property) : property[i] \in {" ", "\t", LF, CR}

TypeMissing(config) == config.type = ""

\* C11: validateCounterConfig returns the first rule violated, in the order
\* property required, property in use, type required, level out of range, and
\* null only when no rule is violated; so an empty property with a missing
\* type gets the property error, a property in use with a missing type the
\* duplicate error.
C11_FirstViolatedRuleOnly ==
    Validated =>
        LET config == text.config
            r1 == TrimmedEmpty(config.property)
            r2 == IsDuplicate(config, text.existingConfigs)
            r3 == TypeMissing(config)
            r4 == IsBadLevel(config)
        IN  /\ r1 => result = PropertyRequired
            /\ (~r1 /\ r2) => result = PropertyInUse
            /\ (~r1 /\ ~r2 /\ r3) => result = TypeRequired
            /\ (~r1 /\ ~r2 /\ ~r3 /\ r4) => result = LevelOutOfRange
            /\ result = NoError <=> (~r1 /\ ~r2 /\ ~r3 /\ ~r4)

\* a candidate with a property in use and no type gets the duplicate error
C11_Witness ==
    /\ Validated
    /\ TypeMissing(text.config)
    /\ IsDuplicate(text.config, text.existingConfigs)
    /\ result = PropertyInUse

\* some existing configuration with another id has the same property, both
\* sides trimmed
SameTrimmedProperty(config, existingConfigs) ==
    \E i \in 1..Len(existingConfigs) :
        /\ existingConfigs[i].id # config.id
        /\ Trim(existingConfigs[i].property) = Trim(config.property)

\* C12 as stated: for a candidate whose trimmed property is not empty, the
\* duplicate error is returned if and only if an existing configuration with
\* another id has the same trimmed property.
C12_AsStated ==
    (Validated /\ ~TrimmedEmpty(text.config.property)) =>
        (result = PropertyInUse <=> SameTrimmedProperty(text.config, text.existingConfigs))

\* the parameter coerces to an integer from 1 to 6
IntegerLevel(parameter) ==
    LET level == ToNumber(parameter)
    IN  ~level.nan /\ ~level.fraction /\ level.value \in 1..MaxHeadingLevel

\* C13 as stated: for a headingLevelCount candidate that passes the earlier
\* rules and has a parameter, the parameter is accepted only when it coerces
\* to an integer from 1 to 6, and gets the out-of-range error otherwise.
C13_AsStated ==
    (/\ Validated
     /\ text.config.type = "headingLevelCount"
     /\ text.config.parameter.kind # "undefined"
     /\ ~TrimmedEmpty(text.config.property)
     /\ ~IsDuplicate(text.config, text.existingConfigs)) =>
        result = IF IntegerLevel(text.config.parameter) THEN NoError ELSE LevelOutOfRange

\* statistics to project from: those of no text, those of a note with headings
SampleStats == {calculateBaseStats(<<>>, "source"), calculateBaseStats(NoteBody, "source")}

\* C27: a configuration validateCounterConfig accepts projects without a
\* failure of its parameter: getCountForType returns a number for it, for
\* any statistics.
C27_AsStated ==
    (/\ Validated
     /\ result = NoError
     /\ text.config.type = "headingLevelCount") =>
        \A stats \in SampleStats :
            getCountForType(text.config.type, stats, text.config.parameter).ok

----------------------------------------------------------------------------
(* Properties of the collection of configurations, checked under SpecSettings *)

\* C14 as stated: whatever has been added, edited, deleted, toggled or
\* imported, no two configurations of settings.calculations have the same
\* property.
C14_AsStated ==
    \A i, j \in 1..Len(calculations) :
        i # j => calculations[i].property # calculations[j].property

----------------------------------------------------------------------------
(* Properties of the progress reports, checked under SpecProgress *)

\* the processed counts the progress reports shown so far have announced
Reported ==
    {notices[i].a : i \in {j \in 1..Len(notices) : notices[j].message = "Progress"}}

ReportCount ==
    Cardinality({i \in 1..Len(notices) : notices[i].message = "Progress"})

\* processed has reached p: the p-th success crosses a tenth of total
CrossesTenth(p, total) == (10 * p) \div total > (10 * (p - 1)) \div total

\* C15 as stated: a progress report is shown exactly when the processed count
\* reaches a tenth of total, at most 10 in a run, none when total <= 10.
C15_AsStated ==
    /\ Reported = {p \in 1..batch.processed :
                        batch.total > 10 /\ CrossesTenth(p, batch.total)}
    /\ ReportCount <= 10

\* the least number of files that is a tenth of total or more
TenthUp(total) == CHOOSE c \in 1..total : 10 * c >= total /\ 10 * (c - 1) < total

\* C15 as amended: with total > 10, a progress report is shown exactly when the
\* count of files processed without error becomes a multiple of
\* ceil(total / 10): one report per multiple, the k-th at k * ceil(total / 10),
\* at most 10 in a run; with total <= 10 none is shown.
C15_Amended ==
    /\ Reported = {p \in 1..batch.processed :
                        batch.total > 10 /\ p % TenthUp(batch.total) = 0}
    /\ ReportCount = Cardinality(Reported)
    /\ ReportCount <= 10
    /\ batch.total <= 10 => ReportCount = 0

\* a run over 11 files, all processed: reports at 2, 4, 6, 8 and 10
C15_Witness ==
    /\ batch.pc = "returned"
    /\ batch.total = 11
    /\ batch.processed = 11
    /\ Reported = {2, 4, 6, 8, 10}

----------------------------------------------------------------------------
(* Properties of the overlapping invocations, checked under SpecConcurrent *)

\* the slots of the calls made by the loop of calculateAllFiles
BatchPasses == {slot \in InFlight : passes[slot].caller = "batch"}

\* C16: within one batch run the documents are processed one after the
\* other: at most one call of the loop is in flight, it is the call for the
\* file the loop is at, and the loop neither moves on nor makes another call
\* before that call is over; the files are attempted in the order of the list.
C16_BatchIsSequential ==
    /\ Cardinality(BatchPasses) <= 1
    /\ \A slot \in BatchPasses :
        /\ batch.pc = "awaiting"
        /\ passes[slot].file = batch.index + 1
    /\ batch.pc = "awaiting" => BatchPasses # {}
    /\ batch.attempted =
            [i \in 1..(batch.index + (IF batch.pc = "awaiting" THEN 1 ELSE 0)) |-> i]

\* the loop is at its second file, reading it, after the first was written,
\* while an invocation of a timer is in flight too
C16_Witness ==
    /\ batch.pc = "awaiting"
    /\ batch.index = 1
    /\ batch.processed = 1
    /\ frontmatter[1] # NoFrontmatter
    /\ \E slot \in BatchPasses : passes[slot].pc = "read" /\ passes[slot].file = 2
    /\ \E slot \in InFlight : passes[slot].caller = "modify"

\* the invocations awaiting a read or a write for the file f
Running(f) ==
    {slot \in 1..MaxPasses : passes[slot].file = f /\ passes[slot].pc \in {"read", "configs"}}

\* C21: the change notifications of one document that arrive before its
\* timer has fired lead to one recalculation: a document never has more than
\* one recalculation pending (a later notification of the burst takes the
\* place of the pending timer).
C21_AsStated == \A f \in Files : timers[f] <= 1

\* C20: at any time at most one calculation (of a command, of the batch, of
\* a timer) is in flight for a given document.
C20_AsStated == \A f \in Files : Cardinality(Running(f)) <= 1

----------------------------------------------------------------------------
(* Properties of the batch under edits, checked under SpecEdit *)

\* C30: every call of a batch run works with the configurations that were
\* enabled when the batch started.
C30_AsStated ==
    pass.caller = "batch" => pass.enabledConfigs = batch.enabledConfigs

----------------------------------------------------------------------------
(* Properties of the calculation over a lagging index, checked under SpecIndex *)

\* C22: the statistics of a calculation count no line of the front matter:
\* they are the statistics of the body of the file alone.
C22_AsStated ==
    (pass.op = "calculateFileStats" /\ pass.stats # NoStats) =>
        pass.stats = calculateBaseStats(bodyText[pass.file], renderer)

\* the same as long as the index is not behind the file when the content is
\* read: what is left of the claim once the lag is taken away
C22_WhenIndexed ==
    [][(pass.op = "calculateFileStats" /\ pass.pc = "read" /\ ~Stale(pass.file)
            /\ pass'.pc = "configs") =>
        pass'.stats = calculateBaseStats(bodyText[pass.file], renderer)]_vars

----------------------------------------------------------------------------
(* Properties of the recalculation fed by its own writes, checked under
   SpecFeedback *)

\* no timer is pending and no calculation is in flight
Quiescent == timers = NoTimers /\ InFlight = {}

\* C29: after one modification from outside, the recalculations come to an
\* end: a state with no timer pending and no calculation in flight is reached.
C29_AsStated == <>Quiescent

----------------------------------------------------------------------------
(* Properties of the batch with a raising notifier, checked under SpecNotifier *)

\* C26: a notice that raises never aborts the computation: a call of
\* calculateFileStats that has read the content ends by returning, every
\* enabled configuration having had its turn, and calculateAllFiles ends
\* only after every document has had its call.
C26_AsStated ==
    /\ (pass.op = "calculateFileStats" /\ pass.stats # NoStats
            /\ pass.pc \in {"returned", "threw"}) =>
            /\ pass.pc = "returned"
            /\ pass.index = Len(pass.enabledConfigs)
    /\ batch.pc \in {"returned", "threw"} => batch.index = batch.total

\* the part of C26 that holds: whatever the notifier does, the loop of
\* calculateAllFiles, once entered, gives every document its call, and counts
\* the calls that returned
C26_LoopGoesOn ==
    (batch.pc \in {"returned", "threw"} /\ batch.attempted # <<>>) =>
        /\ batch.index = batch.total
        /\ batch.attempted = [i \in 1..batch.total |-> i]
        /\ batch.processed <= batch.total

----------------------------------------------------------------------------
(* Properties of the engine, checked under Spec *)

FullScan == pass.op = "calculateFileStats"
CacheAssisted == pass.op = "calculateFileStatsFromCache"

\* the content could not be read: the failure of the whole call, not of one
\* configuration
ReadFailed == pass.pc = "threw" /\ pass.stats = NoStats

\* the configurations of the call that have had their turn
Turns == 1..pass.index

Succeeded(i) == pass.outcomes[i] = "written"

ProjectionOf(i) ==
    getCountForType(pass.enabledConfigs[i].type, pass.stats,
                    pass.enabledConfigs[i].parameter)

\* the last configuration that succeeded in writing the property
LastWriter(property) ==
    Max({i \in Turns : Succeeded(i) /\ pass.enabledConfigs[i].property = property})

HasProperty(fm, key, value) ==
    \E i \in 1..Len(fm.properties) :
        fm.properties[i].key = key /\ fm.properties[i].value = value

\* C1: in calculateFileStats, once the content is read, the failure of one
\* configuration (projection or write) never ends the call: every enabled
\* configuration gets its turn, each one whose projection is defined is
\* written unless the write itself fails, the call returns, and the result
\* holds exactly the properties of the configurations that succeeded, with
\* the values the document now has.
C1_FailureIsIsolated ==
    (FullScan /\ ~ReadFailed /\ pass.enabledConfigs # <<>>) =>
        /\ pass.pc \in {"read", "configs", "returned"}
        /\ Len(pass.outcomes) = pass.index
        /\ pass.pc = "returned" => pass.index = Len(pass.enabledConfigs)
        /\ \A i \in Turns :
            IF ProjectionOf(i).ok
            THEN pass.outcomes[i] \in {"written", "write failed"}
            ELSE pass.outcomes[i] = "projection failed"
        /\ DOMAIN pass.results =
                {pass.enabledConfigs[i].property : i \in {j \in Turns : Succeeded(j)}}
        /\ \A property \in DOMAIN pass.results :
            /\ pass.results[property] = ProjectionOf(LastWriter(property)).value
            /\ HasProperty(frontmatter[pass.file], property, pass.results[property])

\* the first configuration failed, the second was written, the call returned
C1_Witness ==
    /\ FullScan
    /\ pass.pc = "returned"
    /\ Len(pass.outcomes) = 2
    /\ pass.outcomes[1] \in {"projection failed", "write failed"}
    /\ pass.outcomes[2] = "written"
    /\ Cardinality(DOMAIN pass.results) = 1

Unreadable == {f \in Files : ~readable[f]}

IsSummary(n) == n.message = "Batch calculation completed"

Summaries == {i \in 1..Len(notices) : IsSummary(notices[i])}

\* C2: in a batch over the N files of the vault, K of them unreadable, the
\* files are attempted one after the other, each once; the call never ends
\* with an exception; there is no summary before the last file is done, and
\* then one, the last notice, reporting N-K of N.
C2_BatchSummary ==
    /\ batch.pc \in {"idle", "loop", "awaiting", "returned"}
    /\ batch.pc \in {"loop", "awaiting"} =>
        /\ Summaries = {}
        /\ Len(batch.attempted) <= NumFiles
        /\ \A i \in 1..Len(batch.attempted) : batch.attempted[i] = i
    /\ batch.pc = "returned" =>
        /\ batch.attempted = [i \in 1..NumFiles |-> i]
        /\ Cardinality(Summaries) = 1
        /\ notices[Len(notices)] =
                Notice("Batch calculation completed",
                       NumFiles - Cardinality(Unreadable), NumFiles)

\* a batch over a vault with one unreadable file and a readable one is over
C2_Witness ==
    /\ batch.pc = "returned"
    /\ Cardinality(Unreadable) = 1
    /\ readable[NumFiles]
    /\ batch.processed = NumFiles - 1

\* what the full scan computes for the file of the call as it stands
FullScanStats ==
    calculateBaseStats(getFileBody(ContentOf(pass.file), metadataCache[pass.file]),
                       renderer)

\* C5 as stated: when the cache-assisted path has its statistics, before it
\* writes anything, they are the statistics the full scan computes for the
\* same content and cache, and so is every value it is about to write.
C5_AsStated ==
    (CacheAssisted /\ pass.pc = "configs" /\ pass.index = 0 /\ readable[pass.file]) =>
        /\ pass.stats = FullScanStats
        /\ \A i \in 1..Len(pass.enabledConfigs) :
            ProjectionOf(i) =
                getCountForType(pass.enabledConfigs[i].type, FullScanStats,
                                pass.enabledConfigs[i].parameter)

\* the number of headings over the levels, level by level
LevelTotal(headingsByLevel) ==
    LET At(l) == IF l \in DOMAIN headingsByLevel THEN headingsByLevel[l] ELSE 0
    IN  At(1) + At(2) + At(3) + At(4) + At(5) + At(6)

\* C10: whatever the path (full scan, preview, cache-assisted with or
\* without a scan of the body), the statistics have headingCount equal to the
\* sum of headingsByLevel over the levels, and no level with a count below 1.
C10_HeadingCountIsLevelTotal ==
    pass.stats # NoStats =>
        /\ DOMAIN pass.stats.headingsByLevel \subseteq 1..MaxHeadingLevel
        /\ pass.stats.headingCount = LevelTotal(pass.stats.headingsByLevel)
        /\ \A l \in DOMAIN pass.stats.headingsByLevel :
                pass.stats.headingsByLevel[l] >= 1

\* a full scan of a body with two headings of level 1 and one of level 2
C10_Witness ==
    /\ FullScan
    /\ pass.stats # NoStats
    /\ DOMAIN pass.stats.headingsByLevel = {1, 2}
    /\ pass.stats.headingsByLevel[1] = 2
    /\ pass.stats.headingCount = 3

\* getPreviewStats is in progress, or its result is with the command
Previewing == pass.op = "getPreviewStats"

\* C17: getPreviewStats writes no property: from its call to the moment the
\* command has its result or its error, the properties of every document are
\* what they were; and for a file that is not processable it throws at once,
\* without reading and without statistics.
C17_PreviewWritesNothing ==
    /\ [](Previewing /\ pass.file \in Unreadable =>
            pass.pc = "threw" /\ pass.stats = NoStats)
    /\ [][Previewing \/ Previewing' => frontmatter' = frontmatter]_vars

\* a preview has returned the statistics of a document that has properties
C17_Witness ==
    /\ Previewing
    /\ pass.pc = "returned"
    /\ pass.stats # NoStats
    /\ pass.stats.wordCount > 0
    /\ frontmatter[pass.file] # NoFrontmatter

\* calculateFileStats is about to read the content of a file that cannot be read
ReadWillFail == FullScan /\ pass.pc = "read" /\ pass.file \in Unreadable

IsReadError(n) == n.message = "Error calculating statistics"

\* C19: when the content of the document cannot be read, calculateFileStats
\* writes no property (the properties of every document stay what they were),
\* shows the error, and throws to its caller in place of returning results:
\* no configuration has had its turn. (With no configuration enabled the
\* content is not read at all, and the call returns {} before the read.)
C19_UnreadableAborts ==
    /\ [][ReadWillFail =>
            /\ frontmatter' = frontmatter
            /\ pass'.pc = "threw"
            /\ notices' = Append(notices, Notice("Error calculating statistics", 0, 0))]_vars
    /\ [](FullScan /\ pass.file \in Unreadable /\ pass.pc # "read"
                /\ pass.enabledConfigs # <<>> =>
            /\ pass.pc = "threw"
            /\ pass.results = NoResults
            /\ pass.outcomes = <<>>
            /\ \E i \in 1..Len(notices) : IsReadError(notices[i]))

\* the command's call has thrown for an unreadable file whose vault has a
\* document with properties
C19_Witness ==
    /\ FullScan
    /\ pass.caller = "command"
    /\ pass.file \in Unreadable
    /\ pass.pc = "threw"
    /\ \E f \in Files : frontmatter[f] # NoFrontmatter

\* the field of FileStats a type without parameter stands for
FieldOf(type, stats) ==
    CASE type = "wordCount" -> stats.wordCount
      [] type = "charCountWithSpaces" -> stats.charCountWithSpaces
      [] type = "charCountWithoutSpaces" -> stats.charCountWithoutSpaces
      [] type = "lineCount" -> stats.lineCount
      [] type = "headingCount" -> stats.headingCount

FieldTypes == {"wordCount", "charCountWithSpaces", "charCountWithoutSpaces",
               "lineCount", "headingCount"}

\* parameters that stand for the level n, as a number and as text
LevelParameters(n) == {Num(n), Str(DigitsOf(n)), Str(<<" ">> \o DigitsOf(n))}

\* parameters that are undefined, not numbers, or numbers outside 1..6
BadParameters ==
    {Undefined, Str(<<"a">>), Str(<<"2", "a">>), Str(<<"-">>), Str(<<>>),
     Num(0), Num(7), Num(-1), NumAndHalf(0), NumAndHalf(6), Str(<<"7">>),
     Str(<<"0">>), Str(<<"-", "2">>)}

\* the statistics of the call in progress have been computed
HasStats == pass.stats # NoStats

\* the configuration whose turn it is in the loop of a call
AtConfig == pass.pc = "configs" /\ pass.op \in {"calculateFileStats", "calculateFileStatsFromCache"}
CurrentConfig == pass.enabledConfigs[pass.index + 1]

BadLevelTurn ==
    /\ AtConfig
    /\ CurrentConfig.type = "headingLevelCount"
    /\ CurrentConfig.parameter \in BadParameters

\* C18: getCountForType returns the matching field of FileStats for each
\* type without parameter, whatever the parameter; for headingLevelCount
\* with a level of 1..6 it returns headingsByLevel[level], or 0 when the
\* level has no entry; with an undefined, non-numeric or out-of-range
\* parameter it throws, and the turn of that configuration writes nothing
\* and leaves the loop going.
C18_Projection ==
    /\ [](HasStats =>
            /\ \A type \in FieldTypes :
                \A parameter \in BadParameters \cup LevelParameters(2) :
                    getCountForType(type, pass.stats, parameter)
                        = Value(FieldOf(type, pass.stats))
            /\ \A n \in 1..MaxHeadingLevel :
                \A parameter \in LevelParameters(n) :
                    getCountForType("headingLevelCount", pass.stats, parameter)
                        = Value(IF n \in DOMAIN pass.stats.headingsByLevel
                                THEN pass.stats.headingsByLevel[n] ELSE 0)
            /\ \A parameter \in BadParameters :
                    ~getCountForType("headingLevelCount", pass.stats, parameter).ok)
    /\ [][BadLevelTurn =>
            /\ frontmatter' = frontmatter
            /\ pass'.results = pass.results
            /\ pass'.outcomes = Append(pass.outcomes, "projection failed")
            /\ pass'.index = pass.index + 1
            /\ pass'.pc # "threw"]_vars

\* a call has statistics with an entry for some level and none for another,
\* a configuration with a bad level has failed, and a later one was written
C18_Witness ==
    /\ HasStats
    /\ \E n, m \in 1..MaxHeadingLevel :
        /\ n \in DOMAIN pass.stats.headingsByLevel
        /\ pass.stats.headingsByLevel[n] > 0
        /\ m \notin DOMAIN pass.stats.headingsByLevel
    /\ pass.outcomes = <<"projection failed", "written">>

\* an invocation of calculateFileStats or calculateFileStatsFromCache
Calculating == pass.op \in {"calculateFileStats", "calculateFileStatsFromCache"}

\* C23: within one invocation of calculateFileStats or
\* calculateFileStatsFromCache every configuration of the loop is an enabled
\* one and has at most one turn, and a property is written only in the turn
\* of a configuration: its own property, of the file of the call, once; with
\* no configuration enabled the call returns {} with nothing read or written.
C23_OneWritePerEnabledConfig ==
    /\ [](Calculating =>
            /\ \A i \in 1..Len(pass.enabledConfigs) : pass.enabledConfigs[i].enabled
            /\ pass.index <= Len(pass.enabledConfigs)
            /\ Len(pass.outcomes) = pass.index
            /\ Cardinality({i \in Turns : Succeeded(i)}) <= Len(pass.enabledConfigs)
            /\ pass.enabledConfigs = <<>> =>
                    /\ pass.pc = "returned"
                    /\ pass.stats = NoStats
                    /\ pass.results = NoResults)
    /\ [][frontmatter' # frontmatter =>
            /\ Calculating /\ AtConfig
            /\ CurrentConfig.enabled
            /\ pass'.index = pass.index + 1
            /\ pass'.outcomes = Append(pass.outcomes, "written")
            /\ \E value \in 0..(MaxLen * 4) :
                frontmatter' = [frontmatter EXCEPT ![pass.file] =
                    updateFileProperty(@, CurrentConfig.property, value)]]_vars

\* a call has returned after its one enabled configuration was written, the
\* list holding a disabled configuration too
C23_Witness ==
    /\ Calculating
    /\ pass.pc = "returned"
    /\ pass.outcomes = <<"written">>
    /\ \E i \in 1..Len(calculations) : ~calculations[i].enabled

\* C28: the command 'Calculate Statistics for Current Note' reads no content
\* and writes no property when the active file is not processable: its call
\* never gets to the read of such a file.
C28_AsStated ==
    ~(/\ pass.caller = "command"
      /\ ~isFileProcessable(pass.file)
      /\ pass.pc = "read")

====
